---- MODULE Spec2Model ----
(***************************************************************************)
(* hydr0g3n: the staged worker pool of pkg/engine/worker.go, its progress  *)
(* tracker (checkpoint file) and the attempt recorder of                   *)
(* pkg/store/sqlite.go, over consecutive runs of the engine that share one *)
(* progress file and one attempt database.                                 *)
(***************************************************************************)
EXTENDS Integers, Sequences, FiniteSets, Bags, TLC

\* ------------------------------------------------------------------ bounds
MaxRuns == 2        \* consecutive invocations of Run on the same files
MaxWorkers == 2     \* largest cfg.Concurrency explored
MaxRunIds == 2      \* rows of the runs table (run identities) sharing one database
MaxPaths == 3       \* distinct paths offered to MarkAttempt

\* ------------------------------------------------------- program constants
progressStageQuick == "quick"
progressStagePrimary == "primary"
progressStageComplete == "complete"

StatusOK == 200
StatusNotFound == 404
StatusNone == 0      \* Result.StatusCode when client.Request failed

\* ----------------------------------------------------------------- inputs
\* A wordlist line: blank, or a word whose brace/range group expands to n
\* payloads.  The payload of variant v of word [base, n] is base + v; the
\* target template cfg.URL ends in "/" and holds no placeholder, so the job
\* URL is the template followed by the payload.
Blank == [base |-> 0, n |-> 0]
W(b, k) == [base |-> b, n |-> k]

ExpandPayload(word) == [v \in 1..word.n |-> word.base + (v - 1)]
Target == 100
Expand(template, payload) == template + payload

\* wordlists/sample_small.txt (quick stage) and two files for cfg.Wordlist
QuickWordlist == << W(3, 1), W(4, 1) >>
PrimaryWordlist == << W(1, 1), Blank, W(2, 2) >>
TenWordlist == [k \in 1..10 |-> W(k, 1)]
\* a wordlist in which a variant of one line and another line give the same URL
DupWordlist == << W(1, 2), W(2, 1) >>

URLs == { Expand(Target, p) : p \in 1..10 }

VARIABLES
  cfg,            \* Config after Run's normalisation, the caller's plan, the
                  \* outcomes a request to the target can have, the URLs at
                  \* which MarkAttempt or the write of the progress file fails
  file,           \* the progress file on disk
  path_attempted, \* table path_attempted: the paths recorded, path is the primary key
  phase,          \* "idle" (no process), "running", "returned" (results closed)
  tracker,        \* progressTracker.state / hasState of the running engine
  cancelled,      \* ctx.Done() is closed
  stage,          \* the stage stageRunner.run is executing
  ppc,            \* producer position inside stageRunner.run
  line,           \* scanner position in the wordlist (1-based line number)
  wordIndex,
  variantIndex,
  stop,
  positive,       \* atomic.Bool positive
  jobsClosed,     \* close(jobs) has happened
  pool,           \* the worker goroutines of the stage: a bag of worker states
                  \* [pc, url, res] (position in the loop, job held, status held)
  consumer,       \* the reader of the result channel: "recv" or "cancel"
  runNo,          \* number of invocations of Run so far
  requests,       \* per URL: HTTP requests issued over all runs
  delivered,      \* Results the consumer received in the current run
  obs,            \* what an observer of the runs has noted (see ObsInit)
  store,          \* the attempt database as the store package sees it
  cli,            \* the command line program's way through its startup
  mt,             \* a Matcher, the Result it is asked about and its answer
  api             \* an hydroapi.API, its scans and the callers of its methods

vars == << cfg, file, path_attempted, phase, tracker, cancelled, stage, ppc, line,
           wordIndex, variantIndex, stop, positive, jobsClosed, pool, consumer, runNo,
           requests, delivered, obs, store, cli, mt, api >>

\* the engine's variables, and the ones the engine never touches
engineVars == << cfg, file, path_attempted, phase, tracker, cancelled, stage, ppc, line,
                 wordIndex, variantIndex, stop, positive, jobsClosed, pool, consumer,
                 runNo, requests, delivered, obs >>
sideVars == << store, cli, mt, api >>

WorkerCounts == 1..MaxWorkers
\* cfg.Concurrency as the caller may set it
ConfiguredCounts == (-1)..MaxWorkers

\* a worker count that is one too many
concurrencyPlusOne(configured) == IF configured <= 0 THEN 1 ELSE configured + 1

\* Run: concurrency := cfg.Concurrency; if concurrency <= 0 { concurrency = 1 }
concurrency(configured) == IF configured <= 0 THEN 1 ELSE configured

\* a worker goroutine: at the select ("idle"), holding a job ("got"), waiting
\* for the response ("inflight"), at emit ("emit"), returned ("exit")
WorkerAt(pc, url, res) == [pc |-> pc, url |-> url, res |-> res]
IdleWorker == WorkerAt("idle", 0, 0)
ExitedWorker == WorkerAt("exit", 0, 0)

WordlistOf(stg) == IF stg = progressStageQuick THEN QuickWordlist ELSE cfg.wordlist

\* ------------------------------------------------------- progress tracker
NoState == [hasState |-> FALSE, Stage |-> "", WordIndex |-> 0, VariantIndex |-> 0]
State(s, w, v) == [hasState |-> TRUE, Stage |-> s, WordIndex |-> w, VariantIndex |-> v]

stageRank(s) ==
  CASE s = progressStageQuick -> 0
    [] s = progressStagePrimary -> 1
    [] s = progressStageComplete -> 2
    [] OTHER -> -1

\* an EnsureStage that resets the cursor whenever the stage is not lower
EnsureStageReset(p, s) ==
  IF p.hasState /\ stageRank(s) < stageRank(p.Stage) THEN p ELSE State(s, 0, 0)

\* EnsureStage: the tracker state after the call (persisted when it changed).
EnsureStage(p, s) ==
  IF p.hasState /\ stageRank(s) <= stageRank(p.Stage) THEN p ELSE State(s, 0, 0)

\* a StageCompleted that only recognises the directly following stage
StageCompletedNextOnly(p, s) == p.hasState /\ stageRank(s) + 1 = stageRank(p.Stage)

StageCompleted(p, s) == p.hasState /\ stageRank(s) < stageRank(p.Stage)

\* an Allow that ignores the cursor
AllowAll(p, s, w, v) == TRUE

Allow(p, s, w, v) ==
  IF ~p.hasState THEN TRUE
  ELSE IF stageRank(s) < stageRank(p.Stage) THEN FALSE
  ELSE IF stageRank(s) > stageRank(p.Stage) THEN TRUE
  ELSE IF w < p.WordIndex THEN FALSE
  ELSE IF w > p.WordIndex THEN TRUE
  ELSE v >= p.VariantIndex

\* newProgressTracker: nil without a path, else the decoded file (if any).
newProgressTracker == IF cfg.progress THEN file ELSE NoState

isQuickPositive(status) ==
  IF status = 0 THEN FALSE
  ELSE IF status >= 200 /\ status < 400 THEN TRUE
  ELSE status \in {401, 403, 405}

\* a MarkAttempt that reports every URL as new
InsertedAlways(url) == TRUE

\* MarkAttempt: INSERT OR IGNORE affected a row
Inserted(url) == url \notin path_attempted

\* ------------------------------------------------------------ observations
\* Notes taken while the runs go on; the engine never reads them.
ObsInit ==
  [ cancelStage    |-> "",     \* stage that was executing when ctx was cancelled
    prevEnd        |-> "none", \* how the previous invocation ended
    startFile      |-> NoState,\* the progress file when this invocation started
    startAttempted |-> {},     \* path_attempted when this invocation started
    enqRun         |-> {},     \* URLs handed to a worker in this invocation
    reqRun         |-> {},     \* URLs requested in this invocation
    first          |-> 0,      \* first URL handed to a worker in this invocation
    got            |-> {},     \* URLs whose Result reached the consumer before cancel
    prevGot        |-> {},     \* got of the previous invocation
    sawPositive    |-> FALSE,  \* this stage received an interesting status
    ranPrimary     |-> FALSE,  \* this invocation called run for the primary stage
    quickNegRun    |-> 0,      \* invocation whose quick stage completed without positive
    errs           |-> << >>,  \* URLs of the errored Results of the producer, as delivered
    quickPositive  |-> FALSE ] \* a response of the quick stage, in this invocation or an
                               \* earlier one, had an interesting status

\* a stage is executing: its workers exist and it has not returned
Executing == ppc \in {"scan", "variant", "enqueue", "update", "emitErr", "emitSetErr", "wait"}

\* the parts of the program an engine run does not involve, not started
NoStore == [rows |-> << >>, marked |-> {}, last |-> [called |-> FALSE]]
NoCli == [pc |-> "none"]
NoMatcher == [op |-> "none"]
NoApi == [running |-> FALSE]

\* ------------------------------------------------------------------- Init
Idle ==
  /\ tracker = NoState
  /\ cancelled = FALSE
  /\ stage = ""
  /\ ppc = "none"
  /\ line = 0
  /\ wordIndex = 0
  /\ variantIndex = 0
  /\ stop = FALSE
  /\ positive = FALSE
  /\ jobsClosed = FALSE
  /\ pool = EmptyBag
  /\ consumer = "recv"

FreshEngine ==
  /\ file = NoState
  /\ path_attempted = {}
  /\ phase = "idle"
  /\ Idle
  /\ runNo = 0
  /\ requests = [u \in URLs |-> 0]
  /\ delivered = 0
  /\ obs = ObsInit

Fresh ==
  /\ FreshEngine
  /\ store = NoStore
  /\ cli = NoCli
  /\ mt = NoMatcher
  /\ api = NoApi

\* any configuration, up to MaxRuns invocations; the caller may cancel at any
\* moment
Init ==
  /\ cfg \in [quick : BOOLEAN, progress : BOOLEAN, recorder : BOOLEAN, workers : WorkerCounts,
              wordlist : {PrimaryWordlist}, runs : {MaxRuns}, cancelAfter : {0},
              markFails : {{}}, setFails : {{}},
              statuses : {{StatusOK, StatusNotFound, StatusNone}}]
  /\ Fresh

\* the same with a progress file, for the runs in which the process may die
InitCrash ==
  /\ cfg \in [quick : BOOLEAN, progress : {TRUE}, recorder : BOOLEAN, workers : WorkerCounts,
              wordlist : {PrimaryWordlist}, runs : {MaxRuns}, cancelAfter : {0},
              markFails : {{}}, setFails : {{}},
              statuses : {{StatusOK, StatusNotFound, StatusNone}}]
  /\ Fresh

\* scenario F: one stage of ten URLs that all answer 200, progress file, the
\* consumer cancels after its third Result, then one more invocation
InitF ==
  /\ cfg \in [quick : {FALSE}, progress : {TRUE}, recorder : BOOLEAN, workers : WorkerCounts,
              wordlist : {TenWordlist}, runs : {2}, cancelAfter : {3},
              markFails : {{}}, setFails : {{}},
              statuses : {{StatusOK}}]
  /\ Fresh

\* ------------------------------------------------- stageRunner.run: helpers
Word == WordlistOf(stage)[line]
Payloads == ExpandPayload(Word)
JobURL == Expand(Target, Payloads[variantIndex + 1])

\* nextWord / nextVariant of the pair (wordIndex, variantIndex)
NextWord == IF variantIndex + 1 >= Len(Payloads) THEN wordIndex + 1 ELSE wordIndex
\* a next cursor that never wraps to the following word
NextVariantNoWrap == variantIndex + 1
NextVariant == IF variantIndex + 1 >= Len(Payloads) THEN 0 ELSE variantIndex + 1

nextStageOnSuccess(stg) ==
  IF stg = progressStageQuick THEN progressStagePrimary ELSE progressStageComplete
nextStageOnFailure(stg) == progressStageComplete

\* a successor that ignores the positive flag
NextStageIgnorePositive(stg, pos) == nextStageOnFailure(stg)

\* the stage written when a stage completed with positive.Load() = pos
NextStage(stg, pos) == IF pos THEN nextStageOnSuccess(stg) ELSE nextStageOnFailure(stg)

\* a Set that keeps the state in memory and writes no file
SetProgressUnwritten(s, w, v) ==
  IF cfg.progress
    THEN tracker' = State(s, w, v) /\ file' = file
    ELSE UNCHANGED << tracker, file >>

\* progressTracker.Set followed by writeLocked (a nil tracker does nothing)
SetProgress(s, w, v) ==
  IF cfg.progress
    THEN tracker' = State(s, w, v) /\ file' = State(s, w, v)
    ELSE UNCHANGED << tracker, file >>

\* updateProgress for url returns false: Set has assigned p.state and
\* writeLocked returned an error, the progress file is as it was
SetFails(url) == cfg.progress /\ url \in cfg.setFails
SetProgressFailed(s, w, v) == tracker' = State(s, w, v) /\ file' = file

\* MarkAttempt returns an error: the context is cancelled, or the database
\* fails for this URL
MarkFails(url) == cancelled \/ url \in cfg.markFails

\* break out of the scan loop, then close(jobs)
LeaveLoop(stopped) ==
  /\ stop' = stopped
  /\ jobsClosed' = TRUE
  /\ ppc' = "wait"

\* the locals of stageRunner.run and its workers are gone
DropStage ==
  /\ line' = 0
  /\ wordIndex' = 0
  /\ variantIndex' = 0
  /\ stop' = FALSE
  /\ positive' = FALSE
  /\ jobsClosed' = FALSE
  /\ pool' = EmptyBag

\* a Run that goes on to the primary stage whatever the quick stage returned
AfterStageProceed(pos) ==
  /\ IF stage = progressStageQuick
       THEN phase' = phase /\ stage' = progressStagePrimary /\ ppc' = "begin"
       ELSE phase' = "returned" /\ stage' = "" /\ ppc' = "none"
  /\ DropStage

\* Run's goroutine after stageRunner.run returned pos
AfterStage(pos) ==
  /\ IF stage = progressStageQuick /\ pos
       THEN phase' = phase /\ stage' = progressStagePrimary /\ ppc' = "begin"
       ELSE phase' = "returned" /\ stage' = "" /\ ppc' = "none"
  /\ DropStage

\* one worker goes from state w to state w2
Move(w, w2) == pool' = (pool (-) SetToBag({w})) (+) SetToBag({w2})

\* the consumer takes a Result for url from the result channel; the consumer
\* of scenario F notes the URL and cancels once it has counted
\* cfg.cancelAfter Results
Deliver(url) ==
  /\ consumer = "recv"
  /\ delivered' = delivered + 1
  /\ consumer' = IF ~cancelled /\ cfg.cancelAfter > 0 /\ delivered + 1 = cfg.cancelAfter
                   THEN "cancel" ELSE "recv"
  /\ obs' = [obs EXCEPT !.got = IF cancelled \/ cfg.cancelAfter = 0 THEN @ ELSE @ \cup {url}]

\* the same for an errored Result of the producer
DeliverError(url) ==
  /\ consumer = "recv"
  /\ delivered' = delivered + 1
  /\ consumer' = IF ~cancelled /\ cfg.cancelAfter > 0 /\ delivered + 1 = cfg.cancelAfter
                   THEN "cancel" ELSE "recv"
  /\ obs' = [obs EXCEPT !.got = IF cancelled \/ cfg.cancelAfter = 0 THEN @ ELSE @ \cup {url},
                        !.errs = Append(@, url)]

\* ------------------------------------------------------------ orchestrator
\* Run: a new invocation with the same Config, progress file and database.
StartRun ==
  /\ phase \in {"idle", "returned"}
  /\ runNo < cfg.runs
  /\ runNo' = runNo + 1
  /\ phase' = "running"
  /\ tracker' = newProgressTracker
  /\ cancelled' = FALSE
  /\ stage' = IF cfg.quick THEN progressStageQuick ELSE progressStagePrimary
  /\ ppc' = "begin"
  /\ delivered' = 0
  /\ consumer' = "recv"
  /\ obs' = [ObsInit EXCEPT
               !.prevEnd = IF runNo = 0 THEN "none"
                           ELSE IF phase = "idle" THEN "crashed"
                           ELSE IF obs.cancelStage # "" THEN "cancelled"
                           ELSE IF cancelled THEN "cancelledEarly"
                           ELSE "clean",
               !.startFile = file,
               !.startAttempted = path_attempted,
               !.prevGot = obs.got,
               !.quickNegRun = obs.quickNegRun,
               !.quickPositive = obs.quickPositive]
  /\ UNCHANGED << cfg, file, path_attempted, line, wordIndex, variantIndex, stop,
                  positive, jobsClosed, pool, requests >>
  /\ UNCHANGED sideVars

\* stageRunner.run up to the start of the scan loop
StageBegin ==
  /\ phase = "running"
  /\ ppc = "begin"
  /\ LET p == IF cfg.progress THEN EnsureStage(tracker, stage) ELSE tracker IN
       /\ tracker' = p
       /\ file' = IF p # tracker THEN p ELSE file
       /\ IF cfg.progress /\ StageCompleted(p, stage)
            THEN /\ AfterStage(stage = progressStageQuick /\ p.Stage = progressStagePrimary)
                 /\ obs' = [obs EXCEPT !.ranPrimary = @ \/ stage = progressStagePrimary]
            ELSE /\ ppc' = "scan"
                 /\ line' = 1
                 /\ wordIndex' = 0
                 /\ variantIndex' = 0
                 /\ stop' = FALSE
                 /\ positive' = FALSE
                 /\ jobsClosed' = FALSE
                 /\ pool' = (IdleWorker :> concurrency(cfg.workers))
                 /\ obs' = [obs EXCEPT !.sawPositive = FALSE,
                                       !.ranPrimary = @ \/ stage = progressStagePrimary]
                 /\ UNCHANGED << phase, stage >>
  /\ UNCHANGED << cfg, path_attempted, cancelled, consumer, runNo, requests, delivered >>
  /\ UNCHANGED sideVars

\* ---------------------------------------------------------------- producer
\* for scanner.Scan() { if ctx.Err() != nil ...; blank lines are skipped }
Scan ==
  /\ ppc = "scan"
  /\ IF line > Len(WordlistOf(stage))
       THEN LeaveLoop(FALSE) /\ UNCHANGED << line, variantIndex >>
       ELSE IF cancelled
         THEN LeaveLoop(TRUE) /\ UNCHANGED << line, variantIndex >>
         ELSE IF Word = Blank
           THEN line' = line + 1 /\ UNCHANGED << ppc, stop, jobsClosed, variantIndex >>
           ELSE /\ ppc' = "variant"
                /\ variantIndex' = 0
                /\ UNCHANGED << line, stop, jobsClosed >>
  /\ UNCHANGED << cfg, file, path_attempted, phase, tracker, cancelled, stage, wordIndex,
                  positive, pool, consumer, runNo, requests, delivered, obs >>
  /\ UNCHANGED sideVars

\* One pass of the loop over the payloads up to the enqueue: the progress
\* check, then MarkAttempt (which fails on a cancelled context), and for a
\* URL already recorded the cursor update.
Variant ==
  /\ ppc = "variant"
  /\ IF variantIndex >= Len(Payloads)
       THEN /\ wordIndex' = wordIndex + 1
            /\ line' = line + 1
            /\ ppc' = "scan"
            /\ UNCHANGED << variantIndex, path_attempted, tracker, file >>
       ELSE IF cfg.progress /\ ~Allow(tracker, stage, wordIndex, variantIndex)
         THEN /\ variantIndex' = variantIndex + 1
              /\ UNCHANGED << wordIndex, line, ppc, path_attempted, tracker, file >>
         ELSE IF ~cfg.recorder
           THEN /\ ppc' = "enqueue"
                /\ UNCHANGED << wordIndex, line, variantIndex, path_attempted, tracker, file >>
           ELSE IF MarkFails(JobURL)
             THEN /\ ppc' = "emitErr"
                  /\ UNCHANGED << wordIndex, line, variantIndex, path_attempted, tracker, file >>
             ELSE IF ~Inserted(JobURL)
               THEN IF SetFails(JobURL)
                 THEN /\ SetProgressFailed(stage, NextWord, NextVariant)
                      /\ ppc' = "emitSetErr"
                      /\ UNCHANGED << wordIndex, line, variantIndex, path_attempted >>
                 ELSE /\ SetProgress(stage, NextWord, NextVariant)
                      /\ variantIndex' = variantIndex + 1
                      /\ UNCHANGED << wordIndex, line, ppc, path_attempted >>
               ELSE /\ path_attempted' = path_attempted \cup {JobURL}
                    /\ ppc' = "enqueue"
                    /\ UNCHANGED << wordIndex, line, variantIndex, tracker, file >>
  /\ UNCHANGED << cfg, phase, cancelled, stage, stop, positive, jobsClosed, pool, consumer, runNo, requests, delivered, obs >>
  /\ UNCHANGED sideVars

\* enqueue: jobs <- url, received by a worker waiting at its select
Enqueue ==
  /\ ppc = "enqueue"
  /\ BagIn(IdleWorker, pool)
  /\ Move(IdleWorker, WorkerAt("got", JobURL, 0))
  /\ ppc' = "update"
  /\ obs' = [obs EXCEPT !.enqRun = @ \cup {JobURL},
                        !.first = IF @ = 0 THEN JobURL ELSE @]
  /\ UNCHANGED << cfg, file, path_attempted, phase, tracker, cancelled, stage, line,
                  wordIndex, variantIndex, stop, positive, jobsClosed, consumer,
                  runNo, requests, delivered >>
  /\ UNCHANGED sideVars

\* enqueue: <-ctx.Done()
EnqueueCancelled ==
  /\ ppc = "enqueue"
  /\ cancelled
  /\ LeaveLoop(TRUE)
  /\ UNCHANGED << cfg, file, path_attempted, phase, tracker, cancelled, stage, line,
                  wordIndex, variantIndex, positive, pool, consumer, runNo,
                  requests, delivered, obs >>
  /\ UNCHANGED sideVars

\* updateProgress after a successful enqueue
UpdateProgress ==
  /\ ppc = "update"
  /\ IF SetFails(JobURL)
       THEN /\ SetProgressFailed(stage, NextWord, NextVariant)
            /\ ppc' = "emitSetErr"
            /\ variantIndex' = variantIndex
       ELSE /\ SetProgress(stage, NextWord, NextVariant)
            /\ variantIndex' = variantIndex + 1
            /\ ppc' = "variant"
  /\ UNCHANGED << cfg, path_attempted, phase, cancelled, stage, line, wordIndex, stop,
                  positive, jobsClosed, pool, consumer, runNo, requests,
                  delivered, obs >>
  /\ UNCHANGED sideVars

\* a producer that leaves the loop after the errored Result
EmitAttemptErrorStops ==
  /\ ppc = "emitErr"
  /\ DeliverError(JobURL)
  /\ LeaveLoop(TRUE)
  /\ UNCHANGED << cfg, file, path_attempted, phase, tracker, cancelled, stage, line,
                  wordIndex, variantIndex, positive, pool, runNo, requests >>
  /\ UNCHANGED sideVars

\* emit(Result{URL: url, Err: record attempt}): the consumer takes it
EmitAttemptError ==
  /\ ppc = "emitErr"
  /\ DeliverError(JobURL)
  /\ variantIndex' = variantIndex + 1
  /\ ppc' = "variant"
  /\ UNCHANGED << cfg, file, path_attempted, phase, tracker, cancelled, stage, line,
                  wordIndex, stop, positive, jobsClosed, pool, runNo, requests >>
  /\ UNCHANGED sideVars

\* emit(Result{URL: url, Err: record attempt}): <-ctx.Done()
EmitAttemptErrorCancelled ==
  /\ ppc = "emitErr"
  /\ cancelled
  /\ LeaveLoop(TRUE)
  /\ UNCHANGED << cfg, file, path_attempted, phase, tracker, cancelled, stage, line,
                  wordIndex, variantIndex, positive, pool, consumer, runNo,
                  requests, delivered, obs >>
  /\ UNCHANGED sideVars

\* a producer that goes on with the next pair after the errored Result
EmitProgressErrorContinues ==
  /\ ppc = "emitSetErr"
  /\ DeliverError(JobURL)
  /\ variantIndex' = variantIndex + 1
  /\ ppc' = "variant"
  /\ UNCHANGED << stop, jobsClosed >>
  /\ UNCHANGED << cfg, file, path_attempted, phase, tracker, cancelled, stage, line,
                  wordIndex, positive, pool, runNo, requests >>
  /\ UNCHANGED sideVars

\* updateProgress: emit(Result{URL: url, Err: write progress}) taken by the
\* consumer, then return false: stop = true; break
EmitProgressError ==
  /\ ppc = "emitSetErr"
  /\ DeliverError(JobURL)
  /\ LeaveLoop(TRUE)
  /\ UNCHANGED << cfg, file, path_attempted, phase, tracker, cancelled, stage, line,
                  wordIndex, variantIndex, positive, pool, runNo, requests >>
  /\ UNCHANGED sideVars

\* updateProgress: the emit ends on <-ctx.Done(), then return false
EmitProgressErrorCancelled ==
  /\ ppc = "emitSetErr"
  /\ cancelled
  /\ LeaveLoop(TRUE)
  /\ UNCHANGED << cfg, file, path_attempted, phase, tracker, cancelled, stage, line,
                  wordIndex, variantIndex, positive, pool, consumer, runNo,
                  requests, delivered, obs >>
  /\ UNCHANGED sideVars

\* a stage end that does not wait for the workers
StageEndNoWait ==
  /\ ppc = "wait"
  /\ IF ~stop
       THEN SetProgress(NextStage(stage, positive), 0, 0)
       ELSE UNCHANGED << tracker, file >>
  /\ AfterStage(positive)
  /\ UNCHANGED << cfg, path_attempted, cancelled, consumer, runNo, requests, delivered, obs >>
  /\ UNCHANGED sideVars

\* wg.Wait(), then the successor stage is written when the loop was not stopped
StageEnd ==
  /\ ppc = "wait"
  /\ \A w \in BagToSet(pool) : w.pc = "exit"
  /\ IF ~stop
       THEN SetProgress(NextStage(stage, positive), 0, 0)
       ELSE UNCHANGED << tracker, file >>
  /\ AfterStage(positive)
  /\ obs' = [obs EXCEPT !.quickNegRun =
               IF stage = progressStageQuick /\ ~stop /\ ~obs.sawPositive THEN runNo ELSE @]
  /\ UNCHANGED << cfg, path_attempted, cancelled, consumer, runNo, requests, delivered >>
  /\ UNCHANGED sideVars

\* ------------------------------------------------------------------ worker
\* select: <-ctx.Done()
WorkerCancelled ==
  /\ BagIn(IdleWorker, pool)
  /\ cancelled
  /\ Move(IdleWorker, ExitedWorker)
  /\ UNCHANGED << cfg, file, path_attempted, phase, tracker, cancelled, stage, ppc, line,
                  wordIndex, variantIndex, stop, positive, jobsClosed, consumer, runNo,
                  requests, delivered, obs >>
  /\ UNCHANGED sideVars

\* select: url, ok := <-jobs with ok = false
WorkerJobsClosed ==
  /\ BagIn(IdleWorker, pool)
  /\ jobsClosed
  /\ Move(IdleWorker, ExitedWorker)
  /\ UNCHANGED << cfg, file, path_attempted, phase, tracker, cancelled, stage, ppc, line,
                  wordIndex, variantIndex, stop, positive, jobsClosed, consumer, runNo,
                  requests, delivered, obs >>
  /\ UNCHANGED sideVars

\* executeRequest: client.Request under r.ctx; a cancelled context fails
\* before anything is sent
WorkerRequest(w) ==
  /\ w.pc = "got"
  /\ IF cancelled
       THEN /\ Move(w, WorkerAt("emit", w.url, StatusNone))
            /\ UNCHANGED << requests, obs >>
       ELSE /\ Move(w, WorkerAt("inflight", w.url, 0))
            /\ requests' = [requests EXCEPT ![w.url] = @ + 1]
            /\ obs' = [obs EXCEPT !.reqRun = @ \cup {w.url}]
  /\ UNCHANGED << cfg, file, path_attempted, phase, tracker, cancelled, stage, ppc, line,
                  wordIndex, variantIndex, stop, positive, jobsClosed, consumer, runNo,
                  delivered >>
  /\ UNCHANGED sideVars

\* the response (or a transport error: status 0), then positive.Store
WorkerResponse(w) ==
  /\ w.pc = "inflight"
  /\ \E status \in cfg.statuses :
       /\ Move(w, WorkerAt("emit", w.url, status))
       /\ positive' = (positive \/ isQuickPositive(status))
       /\ obs' = [obs EXCEPT !.sawPositive =
                    @ \/ status \in (200..399) \cup {401, 403, 405},
                              !.quickPositive =
                    @ \/ (stage = progressStageQuick
                            /\ status \in (200..399) \cup {401, 403, 405})]
  /\ UNCHANGED << cfg, file, path_attempted, phase, tracker, cancelled, stage, ppc, line,
                  wordIndex, variantIndex, stop, jobsClosed, consumer, runNo, requests,
                  delivered >>
  /\ UNCHANGED sideVars

\* emit: r.results <- res, taken by the consumer
WorkerEmit(w) ==
  /\ w.pc = "emit"
  /\ Deliver(w.url)
  /\ Move(w, IdleWorker)
  /\ UNCHANGED << cfg, file, path_attempted, phase, tracker, cancelled, stage, ppc, line,
                  wordIndex, variantIndex, stop, positive, jobsClosed, runNo, requests >>
  /\ UNCHANGED sideVars

\* an emit without the ctx.Done() case: the worker stays blocked
WorkerEmitStuck(w) ==
  /\ w.pc = "emit"
  /\ cancelled
  /\ UNCHANGED vars

\* emit: <-ctx.Done(), the worker returns
WorkerEmitCancelled(w) ==
  /\ w.pc = "emit"
  /\ cancelled
  /\ Move(w, ExitedWorker)
  /\ UNCHANGED << cfg, file, path_attempted, phase, tracker, cancelled, stage, ppc, line,
                  wordIndex, variantIndex, stop, positive, jobsClosed, consumer, runNo,
                  requests, delivered, obs >>
  /\ UNCHANGED sideVars

\* ------------------------------------------------------------- environment
\* the caller cancels the context handed to Run
Cancel ==
  /\ phase = "running"
  /\ ~cancelled
  /\ cancelled' = TRUE
  /\ obs' = [obs EXCEPT !.cancelStage = IF Executing THEN stage ELSE ""]
  /\ UNCHANGED << cfg, file, path_attempted, phase, tracker, stage, ppc, line, wordIndex,
                  variantIndex, stop, positive, jobsClosed, pool, consumer,
                  runNo, requests, delivered >>
  /\ UNCHANGED sideVars

\* the consumer of scenario F calls cancel() after its cfg.cancelAfter-th Result
ConsumerCancel ==
  /\ phase = "running"
  /\ consumer = "cancel"
  /\ cancelled' = TRUE
  /\ consumer' = "recv"
  /\ obs' = [obs EXCEPT !.cancelStage = IF Executing THEN stage ELSE ""]
  /\ UNCHANGED << cfg, file, path_attempted, phase, tracker, stage, ppc, line, wordIndex,
                  variantIndex, stop, positive, jobsClosed, pool, runNo,
                  requests, delivered >>
  /\ UNCHANGED sideVars

\* the consumer stops receiving from the result channel (it returned, or it
\* is itself blocked on what it does with a Result)
ConsumerStop ==
  /\ phase = "running"
  /\ consumer = "recv"
  /\ consumer' = "stopped"
  /\ UNCHANGED << cfg, file, path_attempted, phase, tracker, cancelled, stage, ppc, line,
                  wordIndex, variantIndex, stop, positive, jobsClosed, pool, runNo,
                  requests, delivered, obs >>
  /\ UNCHANGED sideVars

\* the process dies: the progress file and the database are all that remain
Crash ==
  /\ phase = "running"
  /\ phase' = "idle"
  /\ tracker' = NoState
  /\ cancelled' = FALSE
  /\ stage' = ""
  /\ ppc' = "none"
  /\ consumer' = "recv"
  /\ DropStage
  /\ delivered' = 0
  /\ obs' = [ObsInit EXCEPT !.got = obs.got, !.quickNegRun = obs.quickNegRun,
                             !.quickPositive = obs.quickPositive]
  /\ UNCHANGED << cfg, file, path_attempted, runNo, requests >>
  /\ UNCHANGED sideVars

\* the steps of the engine: Run's goroutine, the producer and the workers
Engine ==
  \/ StartRun
  \/ StageBegin
  \/ Scan
  \/ Variant
  \/ Enqueue
  \/ EnqueueCancelled
  \/ UpdateProgress
  \/ EmitAttemptError
  \/ EmitAttemptErrorCancelled
  \/ StageEnd
  \/ WorkerCancelled
  \/ WorkerJobsClosed
  \/ \E w \in BagToSet(pool) : WorkerRequest(w)
  \/ \E w \in BagToSet(pool) : WorkerResponse(w)
  \/ \E w \in BagToSet(pool) : WorkerEmit(w)
  \/ \E w \in BagToSet(pool) : WorkerEmitCancelled(w)

Next == Engine \/ Cancel

Spec == Init /\ [][Next]_vars

NextCrash == Engine \/ Cancel \/ Crash

SpecCrash == InitCrash /\ [][NextCrash]_vars

\* one invocation in which MarkAttempt fails for some URLs and the write of
\* the progress file fails at some URLs; the caller may cancel
FaultURLs == { Expand(Target, 1), Expand(Target, 2) }
InitFault ==
  /\ cfg \in [quick : BOOLEAN, progress : BOOLEAN, recorder : BOOLEAN, workers : WorkerCounts,
              wordlist : {PrimaryWordlist}, runs : {1}, cancelAfter : {0},
              markFails : SUBSET FaultURLs, setFails : SUBSET FaultURLs,
              statuses : {{StatusOK, StatusNotFound}}]
  /\ Fresh

NextFault == Engine \/ EmitProgressError \/ EmitProgressErrorCancelled \/ Cancel

SpecFault == InitFault /\ [][NextFault]_vars

NextF == Engine \/ ConsumerCancel

SpecF == InitF /\ [][NextF]_vars

\* one invocation that nobody cancels, its attempt database empty at the start
InitOnce ==
  /\ cfg \in [quick : {FALSE}, progress : BOOLEAN, recorder : BOOLEAN,
              workers : ConfiguredCounts, wordlist : {PrimaryWordlist, DupWordlist},
              runs : {1}, cancelAfter : {0},
              markFails : {{}}, setFails : {{}},
              statuses : {{StatusOK, StatusNotFound, StatusNone}}]
  /\ Fresh

NextOnce ==
  \/ StartRun
  \/ StageBegin
  \/ Scan
  \/ Variant
  \/ Enqueue
  \/ UpdateProgress
  \/ StageEnd
  \/ WorkerJobsClosed
  \/ \E w \in BagToSet(pool) : WorkerRequest(w)
  \/ \E w \in BagToSet(pool) : WorkerResponse(w)
  \/ \E w \in BagToSet(pool) : WorkerEmit(w)

SpecOnce == InitOnce /\ [][NextOnce]_vars

\* one invocation whose caller may cancel and whose consumer may stop
\* reading at any moment; every goroutine that can take a step is scheduled
\* eventually
InitLive ==
  /\ cfg \in [quick : BOOLEAN, progress : BOOLEAN, recorder : BOOLEAN,
              workers : ConfiguredCounts, wordlist : {PrimaryWordlist},
              runs : {1}, cancelAfter : {0},
              markFails : {{}}, setFails : {{}},
              statuses : {{StatusOK, StatusNotFound, StatusNone}}]
  /\ Fresh

NextLive == Engine \/ Cancel \/ ConsumerStop

SpecLive == InitLive /\ [][NextLive]_vars /\ WF_vars(Engine)

\* ============================================================ pkg/store
\* The table path_attempted (path TEXT PRIMARY KEY, run_id, attempted_at) of
\* one database, used through Run handles of several rows of the table runs.
\* store.rows maps each recorded path to the run_id of its row; store.marked
\* and store.last note the calls made so far and the last call's answer.
RunIds == 1..MaxRunIds
StorePaths == { Expand(Target, p) : p \in 1..MaxPaths }

\* INSERT OR IGNORE INTO path_attempted: the rows the statement affects
RowsAffected(rows, path) == IF path \in DOMAIN rows THEN 0 ELSE 1

\* Run.MarkAttempt(ctx, path) on the handle whose id is id
MarkAttempt(id, path) ==
  LET inserted == RowsAffected(store.rows, path) # 0 IN
    /\ store' = [rows   |-> IF inserted
                              THEN store.rows @@ (path :> id)
                              ELSE [store.rows EXCEPT ![path] = id],
                 marked |-> store.marked \cup {<< id, path >>},
                 last   |-> [called |-> TRUE, id |-> id, path |-> path,
                             inserted |-> inserted,
                             firstForPair |-> << id, path >> \notin store.marked]]
    /\ UNCHANGED << engineVars, cli, mt, api >>

\* a configuration for the specifications in which no engine run takes place
NoRun == [quick |-> FALSE, progress |-> FALSE, recorder |-> FALSE, workers |-> 1,
          wordlist |-> << >>, runs |-> 0, cancelAfter |-> 0, markFails |-> {},
          setFails |-> {}, statuses |-> {}]

InitStore ==
  /\ cfg = NoRun
  /\ Fresh

NextStore == \E id \in RunIds, path \in StorePaths : MarkAttempt(id, path)

SpecStore == InitStore /\ [][NextStore]_vars

\* ------------------------------------------------- the run identity (hash)
\* Strings are sequences of one-character strings; ByteOrder lists the bytes
\* of the model in increasing order, as sort.Strings compares them.
ByteOrder == << "\n", " ", "-", "=", "_", "a", "b", "c", "d", "e", "f", "g", "h", "i", "j", "k", "l", "m", "n", "o", "p", "q", "r", "s", "t", "u", "v", "w", "x", "y", "z" >>
Code(c) == CHOOSE i \in 1..Len(ByteOrder) : ByteOrder[i] = c

RECURSIVE StringLess(_, _)
StringLess(x, y) ==
  IF y = << >> THEN FALSE
  ELSE IF x = << >> THEN TRUE
  ELSE IF Head(x) = Head(y) THEN StringLess(Tail(x), Tail(y))
  ELSE Code(Head(x)) < Code(Head(y))

RECURSIVE InsertSorted(_, _)
InsertSorted(sorted, x) ==
  IF sorted = << >> THEN << x >>
  ELSE IF StringLess(x, Head(sorted)) THEN << x >> \o sorted
  ELSE << Head(sorted) >> \o InsertSorted(Tail(sorted), x)

RECURSIVE SortStrings(_)
SortStrings(list) ==
  IF list = << >> THEN << >> ELSE InsertSorted(SortStrings(Tail(list)), Head(list))

\* strings.TrimSpace on the blanks of the model
RECURSIVE TrimBlanks(_)
TrimBlanks(v) ==
  IF v # << >> /\ Head(v) = " " THEN TrimBlanks(Tail(v))
  ELSE IF v # << >> /\ v[Len(v)] = " " THEN TrimBlanks(SubSeq(v, 1, Len(v) - 1))
  ELSE v

\* normalizeList: a new slice of the trimmed, non-empty values, in order
RECURSIVE normalizeList(_)
normalizeList(values) ==
  IF values = << >> THEN << >>
  ELSE (IF TrimBlanks(Head(values)) = << >> THEN << >> ELSE << TrimBlanks(Head(values)) >>)
         \o normalizeList(Tail(values))

\* the metadata fields of the model; Concurrency, Timeout, Profile and
\* BinaryName keep their zero values
defaultConfigList(m) ==
  (IF m.TargetURL # << >> THEN << << "t", "a", "r", "g", "e", "t", "_", "u", "r", "l", "=" >> \o m.TargetURL >> ELSE << >>)
    \o (IF m.Wordlist # << >> THEN << << "w", "o", "r", "d", "l", "i", "s", "t", "=" >> \o m.Wordlist >> ELSE << >>)
    \o (IF m.Beginner THEN << << "b", "e", "g", "i", "n", "n", "e", "r", "=", "t", "r", "u", "e" >> >> ELSE << >>)

defaultPayloadList(m) == IF m.Wordlist = << >> THEN << >> ELSE << m.Wordlist >>

normalizedConfig(m) ==
  IF Len(normalizeList(m.ConfigList)) = 0
    THEN normalizeList(defaultConfigList(m)) ELSE normalizeList(m.ConfigList)

normalizedPayloads(m) ==
  IF Len(normalizeList(m.PayloadList)) = 0
    THEN normalizeList(defaultPayloadList(m)) ELSE normalizeList(m.PayloadList)

RECURSIVE WriteEntries(_)
WriteEntries(list) ==
  IF list = << >> THEN << >> ELSE Head(list) \o << "\n" >> \o WriteEntries(Tail(list))

\* the separator written between the two lists
PayloadsMark == << "-", "-", "p", "a", "y", "l", "o", "a", "d", "s", "-", "-", "\n" >>

hashFromListsUnsorted(heap, configList, payloadList) ==
  [sum |-> WriteEntries(heap[configList]) \o PayloadsMark \o WriteEntries(heap[payloadList]),
   heap |-> heap]

\* hashFromLists on two slices of the heap (a sequence of backing arrays):
\* both are sorted in place, then written to the SHA-1 hasher.  sum is the
\* byte stream the hasher is given, of which the digest is a function.
hashFromLists(heap, configList, payloadList) ==
  LET sorted == [heap EXCEPT ![configList] = SortStrings(@), ![payloadList] = SortStrings(@)]
  IN [sum |-> WriteEntries(sorted[configList]) \o PayloadsMark
                \o WriteEntries(sorted[payloadList]),
      heap |-> sorted]

\* RunMetadata.Hash: arrays 1 and 2 are the lists of the metadata, arrays 3
\* and 4 the new slices normalizeList makes; the result gives the digest and
\* the lists of the metadata as the call leaves them
Hash(m) ==
  LET heap == << m.ConfigList, m.PayloadList, normalizedConfig(m), normalizedPayloads(m) >>
      hashed == hashFromLists(heap, 3, 4)
  IN [digest |-> hashed.sum, ConfigList |-> hashed.heap[1], PayloadList |-> hashed.heap[2]]

MaxEntries == 2
RECURSIVE ListsOver(_, _)
ListsOver(entries, n) ==
  IF n = 0 THEN { << >> }
  ELSE ListsOver(entries, n - 1)
         \cup { Append(list, entry) : list \in ListsOver(entries, n - 1), entry \in entries }
ConfigEntries == { << "a" >>, << "b" >>, << "b", " " >>, << " " >> }
PayloadEntries == { << "w" >>, << " " >> }
Metadata ==
  [TargetURL : { << "h" >> }, Wordlist : { << >>, << "w" >> }, Beginner : { FALSE },
   ConfigList : ListsOver(ConfigEntries, MaxEntries),
   PayloadList : ListsOver(PayloadEntries, MaxEntries)]

\* the entries of a list with their multiplicities
EntryBag(list) == [e \in { list[i] : i \in 1..Len(list) } |->
                     Cardinality({ i \in 1..Len(list) : list[i] = e })]
SameEntries(m1, m2) ==
  /\ m1.TargetURL = m2.TargetURL /\ m1.Wordlist = m2.Wordlist /\ m1.Beginner = m2.Beginner
  /\ EntryBag(normalizeList(m1.ConfigList)) = EntryBag(normalizeList(m2.ConfigList))
  /\ EntryBag(normalizeList(m1.PayloadList)) = EntryBag(normalizeList(m2.PayloadList))

\* the identity of two runs whose entries are the same up to their order
HashBoth ==
  /\ mt.op = "none"
  /\ \E m1 \in Metadata : \E m2 \in { m \in Metadata : SameEntries(m1, m) } :
       mt' = [op |-> "hash", first |-> m1, second |-> m2,
              hash1 |-> Hash(m1), hash2 |-> Hash(m2)]
  /\ UNCHANGED << engineVars, store, cli, api >>

SpecHash == InitStore /\ [][HashBoth]_vars

\* ======================================================== cmd/hydro: main
\* The command line program from flag.Parse to the scan.  cli.in is what it
\* is started with and what it finds on disk; cli.httpRequests counts every
\* HTTP request the process has sent, cli.err is the startup error it ended
\* with ("" for none).
CliInputs ==
  [ targetURL    : {"", "http://h/FUZZ"},
    wordlist     : {"", "words.txt"},
    wordlistFile : {"readable", "missing"},
    progressFile : {"none", "valid", "unreadable", "undecodable"},
    preHook      : {"none", "fails", "empty", "invalid", "valid"},
    resumePath   : {"none", "opens", "fails"},
    noBaseline   : BOOLEAN,
    dryRun       : BOOLEAN ]

CliAt(pc, err, sent) == [cli EXCEPT !.pc = pc, !.err = err, !.httpRequests = @ + sent]

\* Run up to the start of its goroutine: the first check that fails, "" when
\* none does
RunStartupError(in) ==
  IF in.targetURL = "" THEN "target URL is required"
  ELSE IF in.wordlist = "" THEN "wordlist path is required"
  ELSE IF in.wordlistFile = "missing" THEN "open wordlist"
  ELSE IF in.progressFile = "unreadable" THEN "read progress file"
  ELSE IF in.progressFile = "undecodable" THEN "decode progress file"
  ELSE IF in.preHook = "fails" THEN "pre-hook"
  ELSE IF in.preHook = "empty" THEN "pre-hook: empty output"
  ELSE IF in.preHook = "invalid" THEN "pre-hook: decode output"
  ELSE ""

\* Plan: the first check that fails, "" when none does
PlanError(in) ==
  IF in.targetURL = "" THEN "target URL is required"
  ELSE IF in.wordlist = "" THEN "wordlist path is required"
  ELSE IF in.wordlistFile = "missing" THEN "open wordlist"
  ELSE ""

\* countWordlistPermutations: the URLs of a wordlist in the order of its
\* lines and of the payloads of each line, blank lines skipped
RECURSIVE countWordlistPermutations(_)
countWordlistPermutations(wordlist) ==
  IF wordlist = << >> THEN << >>
  ELSE (IF Head(wordlist) = Blank THEN << >>
        ELSE [v \in 1..Len(ExpandPayload(Head(wordlist))) |->
                Expand(Target, ExpandPayload(Head(wordlist))[v])])
         \o countWordlistPermutations(Tail(wordlist))

planSampleLimit == 10
NoPlan == [Quick |-> 0, Primary |-> 0, Total |-> 0, Samples |-> << >>]

\* addSample: the sample is kept while fewer than planSampleLimit are held
RECURSIVE addSamples(_, _)
addSamples(samples, urls) ==
  IF urls = << >> THEN samples
  ELSE addSamples(IF Len(samples) < planSampleLimit THEN Append(samples, Head(urls)) ELSE samples,
                  Tail(urls))

\* Plan: the quick wordlist is counted first when the quick stage is enabled
\* and its wordlist is found, then the primary wordlist
Plan(c) ==
  LET quick == IF c.quick THEN countWordlistPermutations(QuickWordlist) ELSE << >>
      primary == countWordlistPermutations(c.wordlist)
  IN [Quick |-> Len(quick), Primary |-> Len(primary),
      Total |-> Len(quick) + Len(primary),
      Samples |-> addSamples(addSamples(<< >>, quick), primary)]

\* main: the -u and -w flags must be given
MainFlags ==
  /\ cli.pc = "flags"
  /\ cli' = IF cli.in.targetURL = "" THEN CliAt("exit", "a target URL must be provided", 0)
            ELSE IF cli.in.wordlist = "" THEN CliAt("exit", "a wordlist must be provided", 0)
            ELSE CliAt("baseline", "", 0)
  /\ UNCHANGED << engineVars, store, mt, api >>

MainBaselineAlways ==
  /\ cli.pc = "baseline"
  /\ cli' = CliAt(IF cli.in.dryRun THEN "plan" ELSE "resume", "",
                  IF ~cli.in.noBaseline THEN 1 ELSE 0)
  /\ UNCHANGED << engineVars, store, mt, api >>

\* main: captureBaseline sends one GET unless --no-baseline or --dry-run; its
\* failure is only reported
MainBaseline ==
  /\ cli.pc = "baseline"
  /\ cli' = CliAt(IF cli.in.dryRun THEN "plan" ELSE "resume", "",
                  IF ~cli.in.noBaseline /\ ~cli.in.dryRun THEN 1 ELSE 0)
  /\ UNCHANGED << engineVars, store, mt, api >>

\* main: --dry-run prints the plan and returns
MainDryRun ==
  /\ cli.pc = "plan"
  /\ cli' = [CliAt("exit", PlanError(cli.in), 0) EXCEPT
               !.plan = IF PlanError(cli.in) = "" THEN Plan(cfg) ELSE NoPlan]
  /\ UNCHANGED << engineVars, store, mt, api >>

\* main: --resume opens the database and starts the run record
MainResume ==
  /\ cli.pc = "resume"
  /\ cli' = IF cli.in.resumePath = "fails" THEN CliAt("exit", "open sqlite db", 0)
            ELSE CliAt("run", "", 0)
  /\ UNCHANGED << engineVars, store, mt, api >>

\* main: engine.Run; an error ends the process
MainRun ==
  /\ cli.pc = "run"
  /\ cli' = IF RunStartupError(cli.in) # "" THEN CliAt("exit", RunStartupError(cli.in), 0)
            ELSE CliAt("scan", "", 0)
  /\ UNCHANGED << engineVars, store, mt, api >>

\* main: the scan sends its requests while main ranges over the results
MainScan ==
  /\ cli.pc = "scan"
  /\ cli' = CliAt("exit", "", 1)
  /\ UNCHANGED << engineVars, store, mt, api >>

InitCli ==
  /\ cfg = NoRun
  /\ FreshEngine
  /\ store = NoStore
  /\ mt = NoMatcher
  /\ api = NoApi
  /\ \E in \in CliInputs :
       cli = [pc |-> "flags", in |-> in, err |-> "", httpRequests |-> 0, plan |-> NoPlan]

NextCli == MainFlags \/ MainBaseline \/ MainDryRun \/ MainResume \/ MainRun \/ MainScan

SpecCli == InitCli /\ [][NextCli]_vars

\* the same program started on a wordlist, with or without the quick stage, a
\* progress file and an attempt table that may hold the trace of an earlier run
InitPlan ==
  /\ cfg \in [quick : BOOLEAN, progress : {TRUE}, recorder : {TRUE}, workers : {1},
              wordlist : {PrimaryWordlist, TenWordlist}, runs : {0}, cancelAfter : {0},
              markFails : {{}}, setFails : {{}},
              statuses : {{}}]
  /\ file \in { NoState, State(progressStagePrimary, 1, 0) }
  /\ path_attempted \in { {}, { Expand(Target, 1) } }
  /\ phase = "idle"
  /\ Idle
  /\ runNo = 0
  /\ requests = [u \in URLs |-> 0]
  /\ delivered = 0
  /\ obs = ObsInit
  /\ store = NoStore
  /\ mt = NoMatcher
  /\ api = NoApi
  /\ \E in \in CliInputs :
       cli = [pc |-> "flags", in |-> in, err |-> "", httpRequests |-> 0, plan |-> NoPlan]

SpecPlan == InitPlan /\ [][NextCli]_vars

\* ============================================================= pkg/matcher
\* Bodies are byte strings, modelled as sequences of one-character strings.
\* "-" stands for every byte that is neither a letter nor a number.
Bodies ==
  { << >>, << "-" >>, << "a" >>, << "b" >>,
    << "A", "-", "b" >>, << "a", "-", "b", "-", "c" >> }

\* strings.ToLower on one character
ToLower(c) == IF c = "A" THEN "a" ELSE c

\* the separator function tokenize hands to strings.FieldsFunc
Letters == { "a", "b", "c", "d", "e", "f", "g", "h", "i", "j", "k", "l", "m", "n", "o", "p", "q", "r", "s", "t", "u", "v", "w", "x", "y", "z", "A" }
IsSeparator(c) == c \notin Letters

\* strings.FieldsFunc: the maximal runs of non-separator characters
RECURSIVE FieldsFunc(_, _, _)
FieldsFunc(text, i, cur) ==
  IF i > Len(text)
    THEN IF cur = << >> THEN << >> ELSE << cur >>
    ELSE IF IsSeparator(text[i])
      THEN IF cur = << >>
        THEN FieldsFunc(text, i + 1, << >>)
        ELSE << cur >> \o FieldsFunc(text, i + 1, << >>)
      ELSE FieldsFunc(text, i + 1, Append(cur, text[i]))

tokenize(body) ==
  IF Len(body) = 0
    THEN << >>
    ELSE FieldsFunc([i \in 1..Len(body) |-> ToLower(body[i])], 1, << >>)

\* the strings.Builder loop of buildShingles: tokens joined by one space
RECURSIVE JoinTokens(_)
JoinTokens(tokens) ==
  IF Len(tokens) = 0 THEN << >>
  ELSE IF Len(tokens) = 1 THEN tokens[1]
  ELSE tokens[1] \o << " " >> \o JoinTokens(Tail(tokens))

buildShinglesOfWords(body, size) ==
  LET tokens == tokenize(body)
  IN { tokens[i] : i \in 1..Len(tokens) }

buildShingles(body, size) ==
  LET size1 == IF size <= 0 THEN 1 ELSE size
      tokens == tokenize(body)
      size2 == IF Len(tokens) < size1 THEN Len(tokens) ELSE size1
  IN IF Len(tokens) = 0 \/ size2 <= 0
       THEN {}
       ELSE { JoinTokens(SubSeq(tokens, i, i + size2 - 1)) :
                i \in 1..(Len(tokens) - size2 + 1) }

\* a float64 that is a ratio of two small integers, den > 0
Ratio(num, den) == [num |-> num, den |-> den]
Zero == Ratio(0, 1)
One == Ratio(1, 1)
GreaterEq(x, y) == x.num * y.den >= y.num * x.den
Greater(x, y) == x.num * y.den > y.num * x.den

jaccardSimilarityNoIntersection(a, b) ==
  IF Cardinality(a) = 0 \/ Cardinality(b) = 0
    THEN Zero
    ELSE Ratio(Cardinality(a \cap b), Cardinality(a) + Cardinality(b))

jaccardSimilarity(a, b) ==
  IF Cardinality(a) = 0 \/ Cardinality(b) = 0
    THEN Zero
    ELSE LET intersection == Cardinality({ shingle \in b : shingle \in a })
             union == Cardinality(a) + Cardinality(b) - intersection
         IN IF union <= 0 THEN Zero ELSE Ratio(intersection, union)

defaultShingleSize == 5

\* matcher.Options: the status list is a slice, the threshold a float64
StatusLists == { << >>, << StatusOK >>, << StatusNotFound >>, << StatusOK, StatusNotFound >> }
SizeBounds == 1..2
SizeRanges ==
  { [Min |-> IF hasMin THEN min ELSE 0, Max |-> IF hasMax THEN max ELSE 0,
     HasMin |-> hasMin, HasMax |-> hasMax] :
      hasMin \in BOOLEAN, hasMax \in BOOLEAN, min \in SizeBounds, max \in SizeBounds }
Thresholds == { Ratio(0, 2), Ratio(1, 2), Ratio(2, 2), Ratio(3, 2) }
ShingleSizes == 0..2
OptionsSet ==
  [Statuses : StatusLists, Size : SizeRanges, BaselineBody : Bodies,
   SimilarityThreshold : Thresholds, ShingleSize : ShingleSizes]

\* engine.Result as the matcher reads it
ContentLengths == (-1)..3
Results ==
  [Err : BOOLEAN, StatusCode : { StatusOK, StatusNotFound },
   ContentLength : ContentLengths, Body : Bodies]

New(opts) ==
  LET shingleSize == IF opts.ShingleSize <= 0 THEN defaultShingleSize ELSE opts.ShingleSize
      configured == Greater(opts.SimilarityThreshold, Zero) /\ Len(opts.BaselineBody) > 0
      threshold == IF Greater(opts.SimilarityThreshold, One) THEN One ELSE opts.SimilarityThreshold
      baseline == buildShingles(opts.BaselineBody, shingleSize)
      active == configured /\ Cardinality(baseline) > 0
  IN [statuses |-> { opts.Statuses[i] : i \in 1..Len(opts.Statuses) },
      hasStatus |-> Len(opts.Statuses) > 0,
      size |-> opts.Size,
      hasSizeAny |-> opts.Size.HasMin \/ opts.Size.HasMax,
      baseline |-> IF active THEN baseline ELSE {},
      hasBaseline |-> active,
      threshold |-> IF active THEN threshold ELSE Zero,
      shingleSize |-> shingleSize]

MatchOutcome(matched, similarity, hasSimilarity) ==
  [Matched |-> matched, Similarity |-> similarity, HasSimilarity |-> hasSimilarity]

EvaluateExclusiveMax(m, res) ==
  IF res.Err THEN MatchOutcome(TRUE, Zero, FALSE)
  ELSE IF m.hasStatus /\ res.StatusCode \notin m.statuses
    THEN MatchOutcome(FALSE, Zero, FALSE)
  ELSE IF m.hasSizeAny /\
          \/ res.ContentLength < 0
          \/ m.size.HasMin /\ res.ContentLength < m.size.Min
          \/ m.size.HasMax /\ res.ContentLength >= m.size.Max
    THEN MatchOutcome(FALSE, Zero, FALSE)
  ELSE IF m.hasBaseline /\ Greater(m.threshold, Zero)
    THEN IF Len(res.Body) = 0 THEN MatchOutcome(TRUE, Zero, FALSE)
         ELSE LET shingles == buildShingles(res.Body, m.shingleSize)
                  similarity == jaccardSimilarity(m.baseline, shingles)
              IN IF Cardinality(shingles) = 0
                   THEN MatchOutcome(TRUE, Zero, FALSE)
                   ELSE MatchOutcome(~GreaterEq(similarity, m.threshold), similarity, TRUE)
  ELSE MatchOutcome(TRUE, Zero, FALSE)

Evaluate(m, res) ==
  IF res.Err THEN MatchOutcome(TRUE, Zero, FALSE)
  ELSE IF m.hasStatus /\ res.StatusCode \notin m.statuses
    THEN MatchOutcome(FALSE, Zero, FALSE)
  ELSE IF m.hasSizeAny /\
          \/ res.ContentLength < 0
          \/ m.size.HasMin /\ res.ContentLength < m.size.Min
          \/ m.size.HasMax /\ res.ContentLength > m.size.Max
    THEN MatchOutcome(FALSE, Zero, FALSE)
  ELSE IF m.hasBaseline /\ Greater(m.threshold, Zero)
    THEN IF Len(res.Body) = 0 THEN MatchOutcome(TRUE, Zero, FALSE)
         ELSE LET shingles == buildShingles(res.Body, m.shingleSize)
                  similarity == jaccardSimilarity(m.baseline, shingles)
              IN IF Cardinality(shingles) = 0
                   THEN MatchOutcome(TRUE, Zero, FALSE)
                   ELSE MatchOutcome(~GreaterEq(similarity, m.threshold), similarity, TRUE)
  ELSE MatchOutcome(TRUE, Zero, FALSE)

\* main builds the matcher once and evaluates results with it; the matcher
\* is a value that Evaluate never changes, so one evaluation per matcher
\* covers every result of the loop
MatcherNew ==
  /\ mt.op = "none"
  /\ \E opts \in OptionsSet : mt' = [op |-> "new", opts |-> opts, m |-> New(opts)]
  /\ UNCHANGED << engineVars, store, cli, api >>

MatcherEvaluate ==
  /\ mt.op = "new"
  /\ \E res \in Results :
       mt' = [op |-> "evaluate", opts |-> mt.opts, m |-> mt.m,
              res |-> res, outcome |-> Evaluate(mt.m, res)]
  /\ UNCHANGED << engineVars, store, cli, api >>

InitMatcher ==
  /\ cfg = NoRun
  /\ Fresh

NextMatcher == MatcherNew \/ MatcherEvaluate

SpecMatcher == InitMatcher /\ [][NextMatcher]_vars

\* the shingle sets the model's bodies give rise to, and all their subsets
ShingleUniverse == UNION { buildShingles(body, size) : body \in Bodies, size \in 1..2 }
ShingleSets == SUBSET ShingleUniverse

\* jaccardSimilarity applied to a pair of shingle sets in both orders
Similarity ==
  /\ mt.op = "none"
  /\ \E a \in ShingleSets, b \in ShingleSets :
       mt' = [op |-> "jaccard", a |-> a, b |-> b,
              ab |-> jaccardSimilarity(a, b), ba |-> jaccardSimilarity(b, a)]
  /\ UNCHANGED << engineVars, store, cli, api >>

SpecJaccard == InitMatcher /\ [][Similarity]_vars

\* the bodies of the baseline scenario, byte by byte
BaselinePage == << "n", "o", "t", " ", "f", "o", "u", "n", "d", " ", "p", "a", "g", "e", " ", "p", "l", "e", "a", "s", "e", " ", "c", "h", "e", "c", "k", " ", "u", "r", "l" >>
SimilarPage == << "n", "o", "t", " ", "f", "o", "u", "n", "d", " ", "p", "a", "g", "e", " ", "p", "l", "e", "a", "s", "e", " ", "c", "h", "e", "c", "k", " ", "t", "h", "e", " ", "u", "r", "l" >>
DifferentPage == << "w", "e", "l", "c", "o", "m", "e", " ", "a", "d", "m", "i", "n", " ", "d", "a", "s", "h", "b", "o", "a", "r", "d" >>
ScenarioBodies == { << >>, BaselinePage, SimilarPage, DifferentPage }
ScenarioThreshold == Ratio(3, 5)
ScenarioOptions ==
  [Statuses : StatusLists,
   Size : { [Min |-> 0, Max |-> 0, HasMin |-> FALSE, HasMax |-> FALSE] },
   BaselineBody : { BaselinePage },
   SimilarityThreshold : { ScenarioThreshold, Ratio(1, 2) },
   ShingleSize : { 0, 1 }]
ScenarioResults ==
  [Err : BOOLEAN, StatusCode : { StatusOK, StatusNotFound },
   ContentLength : ContentLengths, Body : ScenarioBodies]

ScenarioNew ==
  /\ mt.op = "none"
  /\ \E opts \in ScenarioOptions : mt' = [op |-> "new", opts |-> opts, m |-> New(opts)]
  /\ UNCHANGED << engineVars, store, cli, api >>

ScenarioEvaluate ==
  /\ mt.op = "new"
  /\ \E res \in ScenarioResults :
       mt' = [op |-> "evaluate", opts |-> mt.opts, m |-> mt.m,
              res |-> res, outcome |-> Evaluate(mt.m, res)]
  /\ UNCHANGED << engineVars, store, cli, api >>

NextScenario == ScenarioNew \/ ScenarioEvaluate

SpecScenario == InitMatcher /\ [][NextScenario]_vars

\* ============================================================ pkg/templater
\* Strings are sequences of one-character strings.
Contains(s, substr) ==
  \E i \in 1..(Len(s) - Len(substr) + 1) : SubSeq(s, i, i + Len(substr) - 1) = substr

HasSuffix(s, suffix) ==
  Len(s) >= Len(suffix) /\ SubSeq(s, Len(s) - Len(suffix) + 1, Len(s)) = suffix

\* strings.ReplaceAll for a non-empty old: non-overlapping, left to right
RECURSIVE ReplaceAll(_, _, _)
ReplaceAll(s, old, new) ==
  IF Len(s) < Len(old) THEN s
  ELSE IF SubSeq(s, 1, Len(old)) = old
    THEN new \o ReplaceAll(SubSeq(s, Len(old) + 1, Len(s)), old, new)
    ELSE << s[1] >> \o ReplaceAll(Tail(s), old, new)

DefaultPlaceholder == << "F", "U", "Z", "Z" >>
FormatVerb == << "%", "s" >>

\* Templater.Expand on text; Expand above is its value on the targets of
\* the engine model
TemplaterExpand(template, payload) ==
  LET placeholder == DefaultPlaceholder
      doublePlaceholder == << "{", "{" >> \o placeholder \o << "}", "}" >>
      hasDouble == Contains(template, doublePlaceholder)
      expanded1 == IF hasDouble THEN ReplaceAll(template, doublePlaceholder, payload) ELSE template
      templateWithoutDouble ==
        IF hasDouble THEN ReplaceAll(template, doublePlaceholder, << >>) ELSE template
      hasPlain == Contains(templateWithoutDouble, placeholder)
      expanded2 == IF hasPlain THEN ReplaceAll(expanded1, placeholder, payload) ELSE expanded1
      hasFormat == Contains(template, FormatVerb)
      expanded3 == IF hasFormat THEN ReplaceAll(expanded2, FormatVerb, payload) ELSE expanded2
  IN IF hasDouble \/ hasPlain \/ hasFormat THEN expanded3
     ELSE IF HasSuffix(template, << "/" >>) THEN template \o payload
     ELSE template \o << "/" >> \o payload

\* templates "h/<piece>/<piece>" and the payloads they are expanded with
TemplatePieces == { << >>, << "x" >>, << "F", "U", "Z", "Z" >>, << "{", "{", "F", "U", "Z", "Z", "}", "}" >>, << "%", "s" >> }
Templates == { << "h", "/" >> \o p1 \o << "/" >> \o p2 : p1 \in TemplatePieces, p2 \in TemplatePieces }
TemplatePayloads == { << >>, << "a" >>, << "F", "U", "Z", "Z" >>, << "%", "s" >>, << "a", "%", "s", "b" >>, << "{", "{", "F", "U", "Z", "Z", "}", "}" >> }

ExpandTarget ==
  /\ mt.op = "none"
  /\ \E template \in Templates, payload \in TemplatePayloads :
       mt' = [op |-> "expand", template |-> template, payload |-> payload,
              out |-> TemplaterExpand(template, payload)]
  /\ UNCHANGED << engineVars, store, cli, api >>

SpecExpand == InitMatcher /\ [][ExpandTarget]_vars

\* strings.IndexByte, 0-based as in Go, -1 when the byte is absent
IndexByte(s, c) ==
  IF \E i \in 1..Len(s) : s[i] = c
    THEN (CHOOSE i \in 1..Len(s) : s[i] = c /\ \A k \in 1..(i - 1) : s[k] # c) - 1
    ELSE -1

\* the Go slice s[from:to] with 0-based bounds
Slice(s, from, to) == SubSeq(s, from + 1, to)

RECURSIVE TrimLeft(_)
TrimLeft(s) == IF s # << >> /\ Head(s) = " " THEN TrimLeft(Tail(s)) ELSE s
RECURSIVE TrimRight(_)
TrimRight(s) ==
  IF s # << >> /\ s[Len(s)] = " " THEN TrimRight(SubSeq(s, 1, Len(s) - 1)) ELSE s
TrimSpace(s) == TrimRight(TrimLeft(s))

\* strings.Split(s, ","): always at least one part
RECURSIVE Split(_, _)
Split(s, sep) ==
  LET at == IndexByte(s, sep)
  IN IF at < 0 THEN << s >>
     ELSE << Slice(s, 0, at) >> \o Split(Slice(s, at + 1, Len(s)), sep)

\* strings.SplitN(s, "-", 2)
SplitN2(s, sep) ==
  LET at == IndexByte(s, sep)
  IN IF at < 0 THEN << s >> ELSE << Slice(s, 0, at), Slice(s, at + 1, Len(s)) >>

DigitChars == << "0", "1", "2", "3", "4", "5", "6", "7", "8", "9" >>
IsDigit(c) == \E d \in 1..10 : DigitChars[d] = c
DigitValue(c) == (CHOOSE d \in 1..10 : DigitChars[d] = c) - 1

RECURSIVE Digits(_)
Digits(s) == IF s = << >> THEN 0 ELSE 10 * Digits(SubSeq(s, 1, Len(s) - 1)) + DigitValue(s[Len(s)])

\* strconv.Atoi: an optional sign and at least one digit; the numbers of the
\* model are far from the ends of int
Atoi(s) ==
  LET signed == s # << >> /\ Head(s) \in { "-", "+" }
      digits == IF signed THEN Tail(s) ELSE s
  IN IF digits = << >> \/ \E i \in 1..Len(digits) : ~IsDigit(digits[i])
       THEN [ok |-> FALSE, value |-> 0]
       ELSE [ok |-> TRUE,
             value |-> IF signed /\ Head(s) = "-" THEN 0 - Digits(digits) ELSE Digits(digits)]

RECURSIVE Itoa(_)
Itoa(value) ==
  IF value < 0 THEN << "-" >> \o Itoa(0 - value)
  ELSE IF value < 10 THEN << DigitChars[value + 1] >>
  ELSE Itoa(value \div 10) \o << DigitChars[(value % 10) + 1] >>

\* fmt.Sprintf("%0*d", width, value): zeros after the sign up to the width
RECURSIVE ZeroPad(_, _)
ZeroPad(digits, width) == IF Len(digits) >= width THEN digits ELSE ZeroPad(<< "0" >> \o digits, width)
Sprintf0(width, value) ==
  IF value < 0 THEN << "-" >> \o ZeroPad(Itoa(0 - value), width - 1)
  ELSE ZeroPad(Itoa(value), width)

abs(v) == IF v < 0 THEN 0 - v ELSE v

\* the variants of a brace group at the 0-based index i, closing brace at closing
BraceVariants(payload, i, closing) ==
  LET options == Split(Slice(payload, i + 1, closing), ",")
      prefix == Slice(payload, 0, i)
      suffix == Slice(payload, closing + 1, Len(payload))
  IN [k \in 1..Len(options) |-> prefix \o TrimSpace(options[k]) \o suffix]

\* the variants of a range from start to end
RangeVariants(payload, i, closing, startStr, endStr) ==
  LET start == Atoi(startStr).value
      end == Atoi(endStr).value
      prefix == Slice(payload, 0, i)
      suffix == Slice(payload, closing + 1, Len(payload))
      width == IF Len(startStr) = Len(endStr) /\ (Head(startStr) = "0" \/ Head(endStr) = "0")
                 THEN Len(startStr) ELSE 0
      step == IF start > end THEN -1 ELSE 1
      formatted(value) == IF width > 0 THEN Sprintf0(width, value) ELSE Itoa(value)
  IN [k \in 1..(1 + abs(start - end)) |-> prefix \o formatted(start + step * (k - 1)) \o suffix]

\* expandOnce from the 0-based index i on: the first construct that expands
RECURSIVE expandOnceFrom(_, _)
expandOnceFrom(payload, i) ==
  IF i >= Len(payload) THEN [ok |-> FALSE, variants |-> << >>]
  ELSE IF payload[i + 1] = "{"
    THEN LET closing == IndexByte(Slice(payload, i + 1, Len(payload)), "}")
         IN IF closing < 0 THEN expandOnceFrom(payload, i + 1)
            ELSE [ok |-> TRUE, variants |-> BraceVariants(payload, i, closing + i + 1)]
  ELSE IF payload[i + 1] = "["
    THEN LET closing == IndexByte(Slice(payload, i + 1, Len(payload)), "]")
             contents == TrimSpace(Slice(payload, i + 1, closing + i + 1))
             parts == SplitN2(contents, "-")
             startStr == TrimSpace(parts[1])
             endStr == TrimSpace(parts[2])
         IN IF closing < 0 THEN expandOnceFrom(payload, i + 1)
            ELSE IF Len(parts) # 2 THEN expandOnceFrom(payload, i + 1)
            ELSE IF startStr = << >> \/ endStr = << >> THEN expandOnceFrom(payload, i + 1)
            ELSE IF ~Atoi(startStr).ok \/ ~Atoi(endStr).ok THEN expandOnceFrom(payload, i + 1)
            ELSE [ok |-> TRUE,
                  variants |-> RangeVariants(payload, i, closing + i + 1, startStr, endStr)]
  ELSE expandOnceFrom(payload, i + 1)

expandOnce(payload) == expandOnceFrom(payload, 0)

\* wordlist lines: up to MaxPieces pieces, each one character or one whole
\* construct
MaxPieces == 3
PayloadPieces ==
  { << "a" >>,
    << "{" >>,
    << "}" >>,
    << "," >>,
    << "[" >>,
    << "]" >>,
    << "-" >>,
    << "1" >>,
    << " " >>,
    << "[", "1", "-", "2", "]" >>,
    << "[", "2", "-", "1", "]" >>,
    << "[", "0", "1", "-", "0", "2", "]" >>,
    << "{", "a", ",", "b", "}" >> }
RECURSIVE Lines(_)
Lines(n) ==
  IF n = 0 THEN { << >> }
  ELSE Lines(n - 1) \cup { text \o piece : text \in Lines(n - 1), piece \in PayloadPieces }
PayloadLines == Lines(MaxPieces)

\* one pass of the inner loop of ExpandPayload over results[from..]
RECURSIVE ExpandAll(_, _)
ExpandAll(results, from) ==
  IF from > Len(results) THEN << >>
  ELSE LET once == expandOnce(results[from])
       IN (IF once.ok THEN once.variants ELSE << results[from] >>) \o ExpandAll(results, from + 1)

\* ExpandPayload up to its loop: the empty payload is returned at once;
\* mt.rounds counts the passes of the outer loop
PayloadStart ==
  /\ mt.op = "none"
  /\ \E payload \in PayloadLines :
       mt' = [op |-> "payload", in |-> payload, results |-> << payload >>,
              done |-> (payload = << >>), rounds |-> 0]
  /\ UNCHANGED << engineVars, store, cli, api >>

PayloadRoundOnce ==
  /\ mt.op = "payload"
  /\ ~mt.done
  /\ mt' = [mt EXCEPT !.results = ExpandAll(mt.results, 1), !.done = TRUE,
                       !.rounds = @ + 1]
  /\ UNCHANGED << engineVars, store, cli, api >>

\* one round of the outer loop: every result expanded once, in place; the
\* loop ends after the round in which nothing changed
PayloadRound ==
  /\ mt.op = "payload"
  /\ ~mt.done
  /\ mt' = [mt EXCEPT
       !.results = ExpandAll(mt.results, 1),
       !.done = ~\E k \in 1..Len(mt.results) : expandOnce(mt.results[k]).ok,
       !.rounds = @ + 1]
  /\ UNCHANGED << engineVars, store, cli, api >>

NextPayload == PayloadStart \/ PayloadRound

SpecPayload == InitMatcher /\ [][NextPayload]_vars

\* ================================================= pkg/engine: executeRequest
\* What client.Request and the read of the body can give: a transport error,
\* or a response with its status, its ContentLength field (-1 when the length
\* is unknown), the body bytes, and possibly an error while they are read.
\* The bodies of the model are shorter than maxBodyBytes.
Exchanges ==
  [err : { "", "connection", "timeout", "redirects" },
   StatusCode : { StatusOK, StatusNotFound }, ContentLength : (-1)..2,
   Body : { << >>, << "a" >>, << "a", "b" >> }, readErr : { "", "read" }]

\* the exchanges behind the results of the result loop
Responses ==
  { x \in Exchanges : x.err \in { "", "connection" } /\ x.ContentLength \in { -1, 1 }
                        /\ Len(x.Body) <= 1 }

ResultOf(status, length, body, err) ==
  [StatusCode |-> status, ContentLength |-> length, Body |-> body, Err |-> err,
   Similarity |-> Zero, HasSimilarity |-> FALSE]

executeRequest(resp) ==
  IF resp.err # "" THEN ResultOf(StatusNone, 0, << >>, TRUE)
  ELSE IF resp.readErr # "" THEN ResultOf(resp.StatusCode, resp.ContentLength, << >>, TRUE)
  ELSE ResultOf(resp.StatusCode, resp.ContentLength, resp.Body, FALSE)

\* a worker executes one request
Request ==
  /\ mt.op = "none"
  /\ \E resp \in Exchanges : mt' = [op |-> "request", resp |-> resp, res |-> executeRequest(resp)]
  /\ UNCHANGED << engineVars, store, cli, api >>

SpecRequest == InitMatcher /\ [][Request]_vars

\* ================================================ cmd/hydro: the result loop
\* main ranges over the results of the engine.  cli.jsonl, cli.burp and
\* cli.recorder tell which optional sinks are configured (the pretty writer
\* always is); cli.log has one entry per result read: whether it carried an
\* error, whether it matched, the sinks it was written to, in order, and the
\* writes that failed.
MaxResults == 2
LoopOptions ==
  [Statuses : { << >>, << StatusOK >> },
   Size : { [Min |-> 0, Max |-> 0, HasMin |-> FALSE, HasMax |-> FALSE] },
   BaselineBody : { << >>, << "a" >> },
   SimilarityThreshold : { Ratio(1, 2) },
   ShingleSize : { 0 }]
NoError == [set |-> FALSE, at |-> 0, sink |-> ""]
ErrorAt(i, sink) == [set |-> TRUE, at |-> i, sink |-> sink]

\* the sinks one result is written to, in the order of the loop body
WritesBothBranches(matches, res) ==
  (IF matches
     THEN (IF cli.jsonl THEN << "jsonl" >> ELSE << >>)
            \o (IF cli.burp /\ ~res.Err THEN << "burp" >> ELSE << >>)
            \o (IF cli.recorder THEN << "recorder" >> ELSE << >>)
            \o << "pretty" >>
     ELSE << >>)
    \o (IF cli.jsonl THEN << "jsonl" >> ELSE << >>)

Writes(matches, res) ==
  (IF matches
     THEN (IF cli.jsonl THEN << "jsonl" >> ELSE << >>)
            \o (IF cli.burp /\ ~res.Err THEN << "burp" >> ELSE << >>)
            \o (IF cli.recorder THEN << "recorder" >> ELSE << >>)
            \o << "pretty" >>
     ELSE << >>)
    \o (IF ~matches /\ cli.jsonl THEN << "jsonl" >> ELSE << >>)

\* err != nil && writerErr == nil, for the writes of one result in turn
RECURSIVE Retain(_, _, _, _)
Retain(writerErr, writes, failed, i) ==
  IF writes = << >> THEN writerErr
  ELSE Retain(IF Head(writes) \in failed /\ ~writerErr.set
                THEN ErrorAt(i, Head(writes)) ELSE writerErr,
              Tail(writes), failed, i)

\* the results the engine puts on the stream: those of executeRequest, and
\* the Result{Err: err} of a stage that failed
StreamResults ==
  { executeRequest(resp) : resp \in Responses } \cup { ResultOf(StatusNone, 0, << >>, TRUE) }

LoopBody(res, failed, next) ==
  LET outcome == Evaluate(cli.m, res)
      handed == IF outcome.HasSimilarity
                  THEN [res EXCEPT !.HasSimilarity = TRUE, !.Similarity = outcome.Similarity]
                  ELSE res
      writes == Writes(outcome.Matched, handed)
      i == Len(cli.log) + 1
  IN /\ failed \subseteq { writes[k] : k \in 1..Len(writes) }
     /\ cli' = [cli EXCEPT
          !.pc = next,
          !.res = handed,
          !.log = Append(@, [err |-> handed.Err, matched |-> outcome.Matched,
                             writes |-> writes, failed |-> failed]),
          !.writerErr = Retain(@, writes, failed, i),
          !.runErr = @ \/ handed.Err]

LoopResultStops ==
  /\ cli.pc = "loop"
  /\ Len(cli.log) < MaxResults
  /\ \E res \in StreamResults, failed \in SUBSET { "jsonl", "burp", "recorder", "pretty" } :
       LoopBody(res, failed, IF failed = {} THEN "loop" ELSE "flush")
  /\ UNCHANGED << engineVars, store, mt, api >>

\* for res := range results { ... }: one result read and written
LoopResult ==
  /\ cli.pc = "loop"
  /\ Len(cli.log) < MaxResults
  /\ \E res \in StreamResults, failed \in SUBSET { "jsonl", "burp", "recorder", "pretty" } :
       LoopBody(res, failed, "loop")
  /\ UNCHANGED << engineVars, store, mt, api >>

\* the engine closes the stream and the loop ends
LoopEnd ==
  /\ cli.pc = "loop"
  /\ cli' = [cli EXCEPT !.pc = "flush", !.closed = TRUE]
  /\ UNCHANGED << engineVars, store, mt, api >>

\* prettyWriter.Flush, then the report of writerErr or else of runErr
LoopReport ==
  /\ cli.pc = "flush"
  /\ \E flushFails \in BOOLEAN :
       LET writerErr == IF flushFails /\ ~cli.writerErr.set
                          THEN ErrorAt(Len(cli.log) + 1, "flush") ELSE cli.writerErr
       IN cli' = [cli EXCEPT !.pc = "exit", !.writerErr = writerErr,
                             !.reported = IF writerErr.set THEN "output error"
                                          ELSE IF cli.runErr THEN "run error" ELSE ""]
  /\ UNCHANGED << engineVars, store, mt, api >>

InitLoop ==
  /\ cfg = NoRun
  /\ FreshEngine
  /\ store = NoStore
  /\ mt = NoMatcher
  /\ api = NoApi
  /\ \E opts \in LoopOptions, jsonl \in BOOLEAN, burp \in BOOLEAN, recorder \in BOOLEAN :
       cli = [pc |-> "loop", opts |-> opts, m |-> New(opts),
              jsonl |-> jsonl, burp |-> burp, recorder |-> recorder,
              log |-> << >>, res |-> ResultOf(StatusNone, 0, << >>, FALSE),
              writerErr |-> NoError, runErr |-> FALSE, closed |-> FALSE, reported |-> ""]

NextLoop == LoopResult \/ LoopEnd \/ LoopReport

SpecLoop == InitLoop /\ [][NextLoop]_vars

\* Two rule sets of which the second tightens one rule of the first: the
\* allow-list loses statuses (a list is configured when it is not empty, so
\* configuring one where there was none tightens, and emptying one does
\* not), the size range loses sizes, or the threshold is lowered against the
\* same baseline.
StatusTighter(s1, s2) ==
  \/ Len(s1) = 0
  \/ /\ Len(s2) > 0
     /\ { s2[i] : i \in 1..Len(s2) } \subseteq { s1[i] : i \in 1..Len(s1) }
SizeNarrower(r1, r2) ==
  /\ r1.HasMin => (r2.HasMin /\ r2.Min >= r1.Min)
  /\ r1.HasMax => (r2.HasMax /\ r2.Max <= r1.Max)
ThresholdLower(t1, t2) == GreaterEq(t1, t2)
Tightenings(first) ==
  { [first EXCEPT !.Statuses = s] : s \in { x \in StatusLists : StatusTighter(first.Statuses, x) } }
    \cup { [first EXCEPT !.Size = r] : r \in { x \in SizeRanges : SizeNarrower(first.Size, x) } }
    \cup { [first EXCEPT !.SimilarityThreshold = t] :
             t \in { x \in Thresholds : ThresholdLower(first.SimilarityThreshold, x) } }

\* two matchers built from such a pair, then one result evaluated by both
TightenNew ==
  /\ mt.op = "none"
  /\ \E first \in OptionsSet : \E second \in Tightenings(first) :
       mt' = [op |-> "rules", first |-> first, second |-> second]
  /\ UNCHANGED << engineVars, store, cli, api >>

TightenEvaluate ==
  /\ mt.op = "rules"
  /\ \E res \in Results :
       mt' = [op |-> "tighten", first |-> mt.first, second |-> mt.second, res |-> res,
              out1 |-> Evaluate(New(mt.first), res),
              out2 |-> Evaluate(New(mt.second), res)]
  /\ UNCHANGED << engineVars, store, cli, api >>

NextTighten == TightenNew \/ TightenEvaluate

SpecTighten == InitMatcher /\ [][NextTighten]_vars

\* ==================================== progressTracker: the checkpoint write
\* The progress file as bytes on disk.  mt.target is the file at p.path
\* (Absent, or its content), mt.tmp the temporary file of the write under
\* way (NoTemp, or its content; what a dead process leaves of it stays in the
\* directory under its own name and is read by nobody), mt.mem the tracker in
\* memory, mt.prev the target when the last write began, mt.new the state
\* that write carries, mt.read what the last newProgressTracker found.
MaxCheckpoint == 2
Absent == << "absent" >>
NoTemp == << "none" >>
Checkpoints == { State(progressStagePrimary, w, 0) : w \in 0..MaxCheckpoint }

\* json.Encoder.Encode(p.state): the document, as the pieces a write may stop
\* between
Doc(state) == << "{", state.Stage, state.WordIndex, state.VariantIndex, "}" >>

\* os.ReadFile, bytes.TrimSpace, json.Unmarshal of newProgressTracker
ReadProgress(data) ==
  IF data = Absent THEN [found |-> "absent", state |-> NoState]
  ELSE IF data = << >> THEN [found |-> "empty", state |-> NoState]
  ELSE IF \E c \in Checkpoints : data = Doc(c)
    THEN [found |-> "state", state |-> CHOOSE c \in Checkpoints : data = Doc(c)]
    ELSE [found |-> "error", state |-> NoState]

\* an encoder that writes into the progress file itself
EncodeInPlace(m) ==
  [m EXCEPT !.tmp = Append(@, Doc(m.new)[Len(@) + 1]),
            !.target = Append(m.tmp, Doc(m.new)[Len(m.tmp) + 1])]

\* the next piece of the document goes to the temporary file
Encode(m) == [m EXCEPT !.tmp = Append(@, Doc(m.new)[Len(@) + 1])]

\* Set (or EnsureStage): p.state is assigned, then writeLocked begins
WriteBegin ==
  /\ mt.pc = "idle"
  /\ \E c \in Checkpoints :
       /\ c # mt.mem
       /\ mt' = [mt EXCEPT !.pc = "create", !.mem = c, !.new = c, !.prev = mt.target]
  /\ UNCHANGED << engineVars, store, cli, api >>

\* os.CreateTemp(dir, "progress-*.tmp")
WriteCreateTemp ==
  /\ mt.pc = "create"
  /\ \/ mt' = [mt EXCEPT !.pc = "encode", !.tmp = << >>]
     \/ mt' = [mt EXCEPT !.pc = "idle"]
  /\ UNCHANGED << engineVars, store, cli, api >>

\* encoder.Encode(p.state); on an error tmp.Close() and os.Remove
WriteEncode ==
  /\ mt.pc = "encode"
  /\ \/ mt' = [Encode(mt) EXCEPT
                 !.pc = IF Len(mt.tmp) + 1 = Len(Doc(mt.new)) THEN "close" ELSE "encode"]
     \/ mt' = [mt EXCEPT !.pc = "idle", !.tmp = NoTemp]
  /\ UNCHANGED << engineVars, store, cli, api >>

\* tmp.Close(); on an error os.Remove
WriteClose ==
  /\ mt.pc = "close"
  /\ \/ mt' = [mt EXCEPT !.pc = "rename"]
     \/ mt' = [mt EXCEPT !.pc = "idle", !.tmp = NoTemp]
  /\ UNCHANGED << engineVars, store, cli, api >>

\* os.Rename(tmp.Name(), p.path); on an error os.Remove
WriteRename ==
  /\ mt.pc = "rename"
  /\ \/ mt' = [mt EXCEPT !.pc = "idle", !.target = mt.tmp, !.tmp = NoTemp]
     \/ mt' = [mt EXCEPT !.pc = "idle", !.tmp = NoTemp]
  /\ UNCHANGED << engineVars, store, cli, api >>

\* the process dies: the directory is all that remains
WriteCrash ==
  /\ mt.pc # "dead"
  /\ mt' = [mt EXCEPT !.pc = "dead", !.mem = NoState]
  /\ UNCHANGED << engineVars, store, cli, api >>

\* the next run: newProgressTracker reads the progress file
WriteRestart ==
  /\ mt.pc = "dead"
  /\ mt' = [mt EXCEPT !.pc = IF ReadProgress(mt.target).found = "error" THEN "dead" ELSE "idle",
                      !.mem = ReadProgress(mt.target).state,
                      !.read = ReadProgress(mt.target).found]
  /\ UNCHANGED << engineVars, store, cli, api >>

InitWrite ==
  /\ cfg = NoRun
  /\ FreshEngine
  /\ store = NoStore
  /\ cli = NoCli
  /\ api = NoApi
  /\ mt = [op |-> "write", pc |-> "idle", mem |-> NoState, target |-> Absent,
           tmp |-> NoTemp, prev |-> Absent, new |-> NoState, read |-> "absent"]

NextWrite ==
  \/ WriteBegin
  \/ WriteCreateTemp
  \/ WriteEncode
  \/ WriteClose
  \/ WriteRename
  \/ WriteCrash
  \/ WriteRestart

SpecWrite == InitWrite /\ [][NextWrite]_vars

\* ================================================================== claims
\* the persisted cursor as a triple, and the lexicographic order on triples
Cursor(p) == << stageRank(p.Stage), p.WordIndex, p.VariantIndex >>
Before(a, b) ==
  \/ a[1] < b[1]
  \/ a[1] = b[1] /\ a[2] < b[2]
  \/ a[1] = b[1] /\ a[2] = b[2] /\ a[3] < b[3]

\* C1: when the context was cancelled while a stage was executing, the
\* progress file still names that stage once the engine has returned.
C1_StageKeptOnCancel ==
  (phase = "returned" /\ cfg.progress /\ obs.cancelStage # "")
    => (file.hasState /\ file.Stage = obs.cancelStage)

\* the (stage, word, variant) pairs of a run of this configuration
NonBlank(stg) == SelectSeq(WordlistOf(stg), LAMBDA word : word # Blank)
Stages == IF cfg.quick THEN {progressStageQuick, progressStagePrimary}
                       ELSE {progressStagePrimary}
Pairs == { t \in Stages \X (0..9) \X (0..1) :
             /\ t[2] < Len(NonBlank(t[1]))
             /\ t[3] < NonBlank(t[1])[t[2] + 1].n }
PairURL(t) == Expand(Target, ExpandPayload(NonBlank(t[1])[t[2] + 1])[t[3] + 1])

\* C2: with a recorder and a progress file, the run that follows a run
\* cancelled during a stage requests no URL the recorder already held when it
\* started, and every URL whose pair precedes the persisted cursor has been
\* requested at most once over all runs.
C2_ResumeAfterCancel ==
  (cfg.recorder /\ cfg.progress /\ obs.prevEnd = "cancelled")
    => /\ obs.reqRun \cap obs.startAttempted = {}
       /\ \A t \in Pairs :
            Before(<< stageRank(t[1]), t[2], t[3] >>, Cursor(file))
              => requests[PairURL(t)] <= 1

C2_Witness ==
  /\ cfg.recorder /\ cfg.progress
  /\ obs.prevEnd = "cancelled"
  /\ phase = "returned"
  /\ obs.startAttempted # {}
  /\ obs.reqRun # {}
  /\ \E t \in Pairs : Before(<< stageRank(t[1]), t[2], t[3] >>, Cursor(file))
                        /\ requests[PairURL(t)] = 1

\* C3: in a stage of 10 URLs cancelled by the consumer right after its 3rd
\* Result, the first URL handed to a worker by the resumed run is the 4th, and
\* no URL delivered before the cancellation is requested again.
C3_FourthIsNext ==
  (runNo = 2 /\ Cardinality(obs.prevGot) = 3)
    => /\ obs.first # 0 => obs.first = Expand(Target, 4)
       /\ obs.reqRun \cap obs.prevGot = {}

\* C4: right after the producer has handed pair (w, v) to a worker and
\* updated the progress, the persisted cursor is (w, v+1) when the word has a
\* further variant and (w+1, 0) otherwise, which is strictly after (w, v).
C4_CursorAfterScheduling ==
  [][ (cfg.progress /\ ppc = "update" /\ ppc' = "variant")
        => /\ file' = IF variantIndex + 1 < Len(Payloads)
                        THEN State(stage, wordIndex, variantIndex + 1)
                        ELSE State(stage, wordIndex + 1, 0)
           /\ Before(<< stageRank(stage), wordIndex, variantIndex >>, Cursor(file')) ]_vars

C4_Witness ==
  /\ cfg.progress
  /\ ppc = "variant"
  /\ wordIndex = 1 /\ variantIndex = 1
  /\ file = State(progressStagePrimary, 1, 1)
  /\ obs.enqRun = {101, 102}

\* C5: whatever the runs, cancellations, crashes and restarts, the persisted
\* cursor never decreases in the order (rank(stage), word_index,
\* variant_index), and the persisted stage rank never decreases.
C5_CursorMonotone ==
  [][ file.hasState
        => /\ file'.hasState
           /\ ~Before(Cursor(file'), Cursor(file))
           /\ stageRank(file'.Stage) >= stageRank(file.Stage) ]_vars

C5_Witness ==
  /\ obs.prevEnd = "crashed"
  /\ obs.startFile.hasState
  /\ obs.startFile.WordIndex > 0
  /\ Before(Cursor(obs.startFile), Cursor(file))
  /\ file.Stage = obs.startFile.Stage

\* C6: when a stage ends with the context never cancelled, the job channel
\* is closed, every worker has returned, and progress becomes (successor, 0,
\* 0): primary after a quick stage that saw an interesting status, complete
\* after a quick stage that saw none, complete after the primary stage.
C6_SuccessorOnCompletion ==
  [][ (cfg.progress /\ ppc = "wait" /\ ppc' # "wait" /\ ~cancelled)
        => /\ jobsClosed
           /\ \A w \in BagToSet(pool) : w.pc = "exit"
           /\ file' = State(IF stage = progressStageQuick /\ obs.sawPositive
                              THEN progressStagePrimary
                              ELSE progressStageComplete, 0, 0) ]_vars

C6_Witness ==
  /\ cfg.progress /\ ~cancelled
  /\ stage = progressStagePrimary /\ ppc = "begin"
  /\ file = State(progressStagePrimary, 0, 0)
  /\ obs.enqRun # {}

\* C7: a quick stage that completes without an interesting status ends the
\* invocation without the primary stage being run; with a progress file the
\* persisted progress is then complete, and a later invocation issues no
\* request.
C7_QuickNegativeStops ==
  /\ (obs.quickNegRun # 0 /\ obs.quickNegRun = runNo)
       => (~obs.ranPrimary /\ phase = "returned")
  /\ (cfg.progress /\ obs.quickNegRun # 0)
       => /\ file = State(progressStageComplete, 0, 0)
          /\ runNo > obs.quickNegRun => (obs.reqRun = {} /\ ~obs.ranPrimary)

C7_Witness ==
  /\ cfg.progress
  /\ obs.quickNegRun = 1
  /\ runNo = 2
  /\ phase = "returned"
  /\ requests[103] = 1 /\ requests[104] = 1

\* C8: an invocation that starts with persisted stage complete executes no
\* stage: no request, no Result, the progress file and the attempt table
\* unchanged, and its first step closes the result channel.
StartsComplete ==
  /\ cfg.progress
  /\ phase # "idle"
  /\ obs.startFile.hasState
  /\ obs.startFile.Stage = progressStageComplete

C8_CompleteMeansNoWork ==
  /\ [](StartsComplete
          => /\ obs.reqRun = {} /\ obs.enqRun = {}
             /\ delivered = 0
             /\ file = obs.startFile
             /\ path_attempted = obs.startAttempted
             /\ ~Executing)
  /\ [][ (StartsComplete /\ ppc = "begin" /\ ppc' # "begin") => phase' = "returned" ]_vars

C8_Witness ==
  /\ StartsComplete
  /\ phase = "returned"
  /\ runNo = 2

\* C9: with quick mode on, an invocation that starts with persisted stage
\* primary executes no quick stage and goes on to the primary stage, which
\* hands out no pair before the persisted cursor; the persisted stage stays
\* primary until the primary stage has ended.
StartsPrimary ==
  /\ cfg.quick /\ cfg.progress
  /\ phase # "idle"
  /\ obs.startFile.hasState
  /\ obs.startFile.Stage = progressStagePrimary

C9_ResumeAtPrimary ==
  /\ [](StartsPrimary
          => /\ ~(stage = progressStageQuick /\ Executing)
             /\ file.Stage = progressStagePrimary
                  \/ (file = State(progressStageComplete, 0, 0) /\ phase = "returned"))
  /\ [][ (StartsPrimary /\ stage = progressStageQuick /\ ppc = "begin" /\ ppc' # "begin")
           => (phase' = "running" /\ stage' = progressStagePrimary /\ ppc' = "begin"
               /\ obs'.reqRun = {}) ]_vars
  /\ [][ (StartsPrimary /\ ppc = "enqueue" /\ ppc' = "update")
           => /\ stage = progressStagePrimary
              /\ ~Before(<< 1, wordIndex, variantIndex >>, Cursor(obs.startFile)) ]_vars

C9_Witness ==
  /\ StartsPrimary
  /\ obs.startFile.WordIndex = 1 /\ obs.startFile.VariantIndex = 1
  /\ obs.enqRun = {103}
  /\ phase = "returned"
  /\ file = State(progressStageComplete, 0, 0)

\* C10: with a recorder and no progress file, no URL is requested twice over
\* any sequence of runs, a URL the recorder held when a run started is not
\* handed to a worker in that run, and a run that follows a run which
\* returned without cancellation issues no request.
C10_AtMostOnceAcrossRuns ==
  (cfg.recorder /\ ~cfg.progress)
    => /\ \A u \in URLs : requests[u] <= 1
       /\ obs.enqRun \cap obs.startAttempted = {}
       /\ obs.prevEnd = "clean" => obs.reqRun = {}

C10_Witness ==
  /\ cfg.recorder /\ ~cfg.progress
  /\ obs.prevEnd = "clean"
  /\ phase = "returned"
  /\ \A u \in {101, 102, 103} : requests[u] = 1


\* C11: MarkAttempt answers new = true exactly for the first call of each
\* (run identity, path) pair, also when the path is already recorded under
\* another run identity.
C11_NewOncePerIdentity ==
  store.last.called => (store.last.inserted = store.last.firstForPair)

\* the sum over the wordlist's lines of len(ExpandPayload(line)), blank lines
\* left out
RECURSIVE TotalVariants(_)
TotalVariants(wordlist) ==
  IF wordlist = << >> THEN 0
  ELSE (IF Head(wordlist) = Blank THEN 0 ELSE Len(ExpandPayload(Head(wordlist))))
         + TotalVariants(Tail(wordlist))

PairsOfURL(u) == { t \in Pairs : PairURL(t) = u }
DistinctURLs == { PairURL(t) : t \in Pairs }
RECURSIVE SumRequests(_)
SumRequests(S) ==
  IF S = {} THEN 0
  ELSE LET u == CHOOSE x \in S : TRUE IN requests[u] + SumRequests(S \ {u})

Uninterrupted == runNo = 1 /\ phase = "returned" /\ ~cancelled

\* C12 as stated: after a single uninterrupted run on an empty attempt
\* database, the Results delivered and the requests issued both number the
\* total of payload variants, one request per (word, variant) pair.
C12_OneResultPerVariant ==
  Uninterrupted
    => /\ delivered = TotalVariants(cfg.wordlist)
       /\ SumRequests(URLs) = TotalVariants(cfg.wordlist)
       /\ \A u \in URLs : requests[u] = Cardinality(PairsOfURL(u))

\* C12 amended: without a recorder there is one request and one Result per
\* (word, variant) pair; with a recorder there is one request and one Result
\* per distinct URL, later pairs of an already recorded URL being skipped.
C12_OneResultPerVariantOrURL ==
  Uninterrupted
    => IF cfg.recorder
         THEN /\ delivered = Cardinality(DistinctURLs)
              /\ \A u \in URLs : requests[u] = IF u \in DistinctURLs THEN 1 ELSE 0
         ELSE /\ delivered = TotalVariants(cfg.wordlist)
              /\ \A u \in URLs : requests[u] = Cardinality(PairsOfURL(u))

C12_Witness ==
  /\ Uninterrupted
  /\ cfg.recorder
  /\ cfg.wordlist = DupWordlist
  /\ delivered = 2
  /\ TotalVariants(cfg.wordlist) = 3

\* the requests in flight: workers between client.Request and its return
InFlight(u) == CopiesIn(WorkerAt("inflight", u, 0), pool)
RECURSIVE SumInFlight(_)
SumInFlight(S) ==
  IF S = {} THEN 0
  ELSE LET u == CHOOSE x \in S : TRUE IN InFlight(u) + SumInFlight(S \ {u})

\* C13: at no moment are two requests for the same URL in flight.
C13_OneInFlightPerURL == \A u \in URLs : InFlight(u) <= 1

\* C14: the requests in flight never number more than the configured worker
\* count, a configured count of zero or less counting as 1.
C14_InFlightBound ==
  SumInFlight(URLs) <= (IF cfg.workers <= 0 THEN 1 ELSE cfg.workers)

C14_Witness ==
  /\ cfg.workers <= 0
  /\ SumInFlight(URLs) = 1

\* C15: the result channel is closed (Run's goroutine returns) once per
\* invocation and only when the producer and every worker have stopped; no
\* Result is delivered after the close; and every invocation whose consumer
\* keeps reading, or whose context is cancelled, reaches the close.
C15_ClosedOnceAfterAll ==
  /\ [][ (phase = "running" /\ phase' = "returned")
           => /\ ppc \in {"begin", "wait"}
              /\ \A w \in BagToSet(pool) : w.pc = "exit"
              /\ pool' = EmptyBag /\ ppc' = "none" ]_vars
  /\ [](phase = "returned" => (pool = EmptyBag /\ ppc = "none"))
  /\ [][ (phase = "returned" /\ phase' = "returned") => delivered' = delivered ]_vars
  /\ (phase = "running") ~> (phase = "returned" \/ (consumer = "stopped" /\ ~cancelled))

C15_Witness ==
  /\ phase = "returned"
  /\ ~cancelled
  /\ consumer = "recv"
  /\ delivered = 3

\* C16: once the context is cancelled, whatever the workers and the producer
\* are blocked on (an emit nobody receives, a job nobody takes), all of them
\* exit, run returns and the result channel is closed.
C16_CancelUnblocks ==
  (phase = "running" /\ cancelled) ~> (phase = "returned")

\* the context is cancelled while a worker is blocked in emit, the consumer
\* gone, and the producer is blocked in enqueue
C16_Witness ==
  /\ phase = "running"
  /\ cancelled
  /\ consumer = "stopped"
  /\ ppc = "enqueue"
  /\ \A w \in BagToSet(pool) : w.pc = "emit"

\* the startup failures C17 lists
StartupFailures ==
  { "a target URL must be provided", "target URL is required",
    "a wordlist must be provided", "wordlist path is required", "open wordlist",
    "read progress file", "decode progress file",
    "pre-hook", "pre-hook: empty output", "pre-hook: decode output" }

\* C17: when startup fails, the process has sent no HTTP request at all, the
\* baseline request included.
C17_NoRequestOnStartupFailure ==
  (cli.pc = "exit" /\ cli.err \in StartupFailures) => cli.httpRequests = 0

\* what the claims call the shingle set of a body and the Jaccard index
ShinglesOf(body) == buildShingles(body, mt.m.shingleSize)
AtOrAbove(body) ==
  LET S == ShinglesOf(body)
      B == mt.m.baseline
  IN Cardinality(B \cap S) * mt.m.threshold.den
       >= mt.m.threshold.num * Cardinality(B \cup S)
StatusAllowed ==
  Len(mt.opts.Statuses) > 0
    => \E i \in 1..Len(mt.opts.Statuses) : mt.opts.Statuses[i] = mt.res.StatusCode
SizeAllowed ==
  (mt.opts.Size.HasMin \/ mt.opts.Size.HasMax)
    => /\ mt.res.ContentLength >= 0
       /\ mt.opts.Size.HasMin => mt.res.ContentLength >= mt.opts.Size.Min
       /\ mt.opts.Size.HasMax => mt.res.ContentLength <= mt.opts.Size.Max
TooSimilar ==
  /\ mt.m.hasBaseline
  /\ ShinglesOf(mt.res.Body) # {}
  /\ AtOrAbove(mt.res.Body)

\* C18: a result that carries an error matches whatever the filters are;
\* any other result matches exactly when its status is in the allow-list (if
\* one is configured), its content length is non-negative and within the
\* inclusive bounds (if a bound is configured), and it is not too similar to
\* an active baseline.
C18_EvaluateMatched ==
  mt.op = "evaluate"
    => (mt.outcome.Matched
          <=> (mt.res.Err \/ (StatusAllowed /\ SizeAllowed /\ ~TooSimilar)))

\* a result without error, of an allowed status, whose length equals the
\* configured maximum, and whose body is compared with the baseline and is
\* less similar than the threshold: it matches
C18_Witness ==
  /\ mt.op = "evaluate"
  /\ ~mt.res.Err
  /\ mt.m.hasStatus
  /\ mt.opts.Size.HasMax /\ mt.res.ContentLength = mt.opts.Size.Max
  /\ mt.outcome.HasSimilarity
  /\ mt.outcome.Similarity.num > 0
  /\ mt.outcome.Matched

\* C20: the similarity of two shingle sets lies in [0, 1], is the same in
\* both argument orders, and is 1 exactly when the sets are equal and
\* non-empty.
C20_SimilarityLaws ==
  mt.op = "jaccard"
    => /\ mt.ab.den > 0
       /\ 0 <= mt.ab.num /\ mt.ab.num <= mt.ab.den
       /\ mt.ab.num * mt.ba.den = mt.ba.num * mt.ab.den
       /\ (mt.ab.num = mt.ab.den) <=> (mt.a = mt.b /\ mt.a # {})

\* two equal sets of several shingles, of similarity 1
C20_Witness ==
  /\ mt.op = "jaccard"
  /\ mt.a = mt.b
  /\ Cardinality(mt.a) >= 2
  /\ mt.ab = Ratio(Cardinality(mt.a), Cardinality(mt.a))

\* C19: matching is monotone in the rules: a result that does not match
\* under a rule set does not match under a tightening of it (a smaller
\* status allow-list, a narrower size range, or a lower similarity threshold
\* against the same baseline).
C19_MonotoneUnderTightening ==
  mt.op = "tighten" => (~mt.out1.Matched => ~mt.out2.Matched)

\* the rule set of the baseline scenario: no status list, no size range,
\* threshold 0.6, the default shingle size
ScenarioRules ==
  /\ mt.op = "evaluate"
  /\ ~mt.res.Err
  /\ mt.opts.Statuses = << >>
  /\ mt.opts.SimilarityThreshold = ScenarioThreshold
  /\ mt.opts.ShingleSize = 0

\* C21 as stated: under the scenario's rules the body "not found page please
\* check the url" gets a similarity of at least 0.6 and is filtered out, and
\* the body "welcome admin dashboard" gets a similarity below 0.6 and is kept.
C21_ScenarioAsStated ==
  ScenarioRules
    => /\ mt.res.Body = SimilarPage
            => /\ mt.outcome.HasSimilarity
               /\ GreaterEq(mt.outcome.Similarity, ScenarioThreshold)
               /\ ~mt.outcome.Matched
       /\ mt.res.Body = DifferentPage
            => /\ ~GreaterEq(mt.outcome.Similarity, ScenarioThreshold)
               /\ mt.outcome.Matched

\* C21 amended: under the scenario's rules the body "not found page please
\* check the url" shares one of its three 5-word shingles with the two of the
\* baseline, gets the similarity 1/4, below 0.6, and is kept; the body
\* "welcome admin dashboard" gets the similarity 0 and is kept.
C21_ScenarioAsComputed ==
  ScenarioRules
    => /\ mt.res.Body = SimilarPage
            => /\ mt.outcome.HasSimilarity
               /\ mt.outcome.Similarity = Ratio(1, 4)
               /\ mt.outcome.Matched
       /\ mt.res.Body = DifferentPage
            => /\ mt.outcome.HasSimilarity
               /\ mt.outcome.Similarity.num = 0
               /\ mt.outcome.Matched

\* the scenario's rules have evaluated the body "not found page please check
\* the url"
C21_Witness ==
  /\ ScenarioRules
  /\ mt.res.Body = SimilarPage
  /\ mt.m.hasBaseline
  /\ Cardinality(mt.m.baseline) = 2

\* the most recent result of the loop was written to a sink
Handed == cli.pc = "loop" /\ cli.log # << >> /\ cli.log[Len(cli.log)].writes # << >>

\* C22: a result handed to the sinks carries a similarity score exactly when
\* baseline filtering is active and the body of the result is not empty.
C22_SimilarityPresent ==
  Handed => (cli.res.HasSimilarity <=> (cli.m.hasBaseline /\ Len(cli.res.Body) > 0))

\* the substitution of every placeholder of the template in one pass, left to
\* right, the text of the payload never looked at
RECURSIVE OnePass(_, _)
OnePass(template, payload) ==
  LET double == << "{", "{" >> \o DefaultPlaceholder \o << "}", "}" >>
      StartsWith(p) == Len(template) >= Len(p) /\ SubSeq(template, 1, Len(p)) = p
      After(p) == SubSeq(template, Len(p) + 1, Len(template))
  IN IF template = << >> THEN << >>
     ELSE IF StartsWith(double) THEN payload \o OnePass(After(double), payload)
     ELSE IF StartsWith(DefaultPlaceholder) THEN payload \o OnePass(After(DefaultPlaceholder), payload)
     ELSE IF StartsWith(FormatVerb) THEN payload \o OnePass(After(FormatVerb), payload)
     ELSE << template[1] >> \o OnePass(Tail(template), payload)

HasPlaceholder(template) == Contains(template, DefaultPlaceholder) \/ Contains(template, FormatVerb)

\* C24: every occurrence of every placeholder of the template is replaced by
\* the payload in one pass; text that came from the payload is not
\* substituted again.
C24_OnePassSubstitution ==
  (mt.op = "expand" /\ HasPlaceholder(mt.template))
    => mt.out = OnePass(mt.template, mt.payload)

\* the constructs C23 calls expandable, at position i of s: a "{" with a "}"
\* after it, or a "[" whose text up to the next "]" is a decimal number, a
\* dash and an integer (blanks around the numbers allowed)
IsNumber(t) == t # << >> /\ \A k \in 1..Len(t) : IsDigit(t[k])
IsInteger(t) == IsNumber(t) \/ (t # << >> /\ Head(t) = "-" /\ IsNumber(Tail(t)))
BraceAt(s, i) == s[i] = "{" /\ \E j \in (i + 1)..Len(s) : s[j] = "}"
RangeAt(s, i) ==
  /\ s[i] = "["
  /\ \E j \in (i + 1)..Len(s) :
       /\ s[j] = "]"
       /\ \A k \in (i + 1)..(j - 1) : s[k] # "]"
       /\ \E d \in (i + 1)..(j - 1) :
            /\ s[d] = "-"
            /\ IsNumber(TrimSpace(SubSeq(s, i + 1, d - 1)))
            /\ IsInteger(TrimSpace(SubSeq(s, d + 1, j - 1)))
Expandable(s) == \E i \in 1..Len(s) : BraceAt(s, i) \/ RangeAt(s, i)
LeftMost(s) == CHOOSE i \in 1..Len(s) :
  /\ BraceAt(s, i) \/ RangeAt(s, i)
  /\ \A k \in 1..(i - 1) : ~(BraceAt(s, k) \/ RangeAt(s, k))

\* the variants of the left-most construct, each expanded in turn before the
\* next: the left-most construct varies slowest
RECURSIVE DepthFirst(_)
RECURSIVE DepthFirstAll(_, _)
DepthFirst(s) ==
  IF ~Expandable(s) THEN << s >>
  ELSE DepthFirstAll(expandOnceFrom(s, LeftMost(s) - 1).variants, 1)
DepthFirstAll(variants, k) ==
  IF k > Len(variants) THEN << >>
  ELSE DepthFirst(variants[k]) \o DepthFirstAll(variants, k + 1)

\* the opening braces and brackets of a line: every pass that changes a
\* payload removes one of them from it
Openers(s) == Cardinality({ i \in 1..Len(s) : s[i] \in { "{", "[" } })

\* C23: ExpandPayload terminates on every line (its loop makes at most one
\* pass per opening brace or bracket of the line, and a last one that changes
\* nothing); no payload it returns holds an expandable construct; the
\* payloads are listed with the left-most construct varying slowest.
C23_ExpandPayloadTotal ==
  mt.op = "payload"
    => /\ ~mt.done => mt.rounds <= Openers(mt.in)
       /\ mt.done
            => /\ \A k \in 1..Len(mt.results) : ~Expandable(mt.results[k])
               /\ mt.results = DepthFirst(mt.in)

\* a line with a brace group and a range, expanded to four payloads in two
\* passes and a third that changes nothing
C23_Witness ==
  /\ mt.op = "payload"
  /\ mt.done
  /\ mt.rounds = 3
  /\ mt.in = << "{", "a", ",", "b", "}", "[", "1", "-", "2", "]" >>
  /\ mt.results = << << "a", "1" >>, << "a", "2" >>, << "b", "1" >>, << "b", "2" >> >>

\* C25: two metadata whose config entries and payload entries are the same
\* after trimming and dropping the empty ones, in any order, get the same
\* digest, and the lists they were given are as they were.
C25_IdentityOrderFree ==
  mt.op = "hash"
    => /\ mt.hash1.digest = mt.hash2.digest
       /\ mt.hash1.ConfigList = mt.first.ConfigList
       /\ mt.hash1.PayloadList = mt.first.PayloadList
       /\ mt.hash2.ConfigList = mt.second.ConfigList
       /\ mt.hash2.PayloadList = mt.second.PayloadList

\* the entries "b" and "a" in the two orders, one of them with a blank to trim
C25_Witness ==
  /\ mt.op = "hash"
  /\ normalizeList(mt.first.ConfigList) = << << "b" >>, << "a" >> >>
  /\ normalizeList(mt.second.ConfigList) = << << "a" >>, << "b" >> >>
  /\ mt.first.ConfigList # normalizeList(mt.first.ConfigList)
  /\ mt.hash1.digest = mt.hash2.digest

\* C26: a result that carries an error has the status code 0, whichever the
\* failure: connection, timeout, too many redirects, or the read of the body.
C26_ErrorMeansStatusZero ==
  (mt.op = "request" /\ mt.res.Err) => mt.res.StatusCode = StatusNone

\* C27: the content length of a result without error is the ContentLength of
\* the response when that is known (not negative), and the number of body
\* bytes read when it is not.
C27_ContentLengthKnown ==
  (mt.op = "request" /\ ~mt.res.Err)
    => mt.res.ContentLength =
         IF mt.resp.ContentLength >= 0 THEN mt.resp.ContentLength ELSE Len(mt.res.Body)

\* the pairs (stage, word, variant) of the run in the order of the scan
PairBefore(a, b) ==
  Before(<< stageRank(a[1]), a[2], a[3] >>, << stageRank(b[1]), b[2], b[3] >>)
EnumerationAt(k) ==
  PairURL(CHOOSE t \in Pairs : Cardinality({ u \in Pairs : PairBefore(u, t) }) = k - 1)
PlanPrinted == cli.pc = "exit" /\ cli.in.dryRun /\ cli.err = ""

\* C28: a dry run sends no HTTP request and leaves the progress file, the
\* tracker and the attempt table as they are; its plan has total = quick +
\* primary and the first URLs of the enumeration, at most 10, as samples.
C28_PlanIsPure ==
  /\ [](PlanPrinted
          => /\ cli.plan.Quick = (IF cfg.quick THEN TotalVariants(QuickWordlist) ELSE 0)
             /\ cli.plan.Primary = TotalVariants(cfg.wordlist)
             /\ cli.plan.Total = cli.plan.Quick + cli.plan.Primary
             /\ Len(cli.plan.Samples) = (IF cli.plan.Total < 10 THEN cli.plan.Total ELSE 10)
             /\ \A k \in 1..Len(cli.plan.Samples) : cli.plan.Samples[k] = EnumerationAt(k))
  /\ [][cli.in.dryRun
          => /\ cli'.httpRequests = cli.httpRequests
             /\ requests' = requests
             /\ file' = file
             /\ tracker' = tracker
             /\ path_attempted' = path_attempted
             /\ store' = store]_vars

\* a dry run with the quick stage over twelve URLs, of which ten are samples,
\* started beside a progress file and an attempt table that are not empty
C28_Witness ==
  /\ PlanPrinted
  /\ cli.plan.Quick = 2 /\ cli.plan.Total = 12
  /\ Len(cli.plan.Samples) = 10
  /\ ~cli.in.noBaseline
  /\ file.hasState /\ path_attempted # {}

\* the sinks a result is due to, by what the sinks are for: the JSONL writer
\* takes every result, the pretty writer and the recorder the matched ones,
\* the Burp export the matched ones that carry no error
Due(e) ==
  (IF cli.jsonl THEN { "jsonl" } ELSE {})
    \cup (IF e.matched THEN { "pretty" } ELSE {})
    \cup (IF e.matched /\ cli.recorder THEN { "recorder" } ELSE {})
    \cup (IF e.matched /\ cli.burp /\ ~e.err THEN { "burp" } ELSE {})
Offered(e) == { e.writes[k] : k \in 1..Len(e.writes) }
SinkOrder == << "jsonl", "burp", "recorder", "pretty" >>
FailedEntries == { i \in 1..Len(cli.log) : cli.log[i].failed # {} }
FirstFailed == CHOOSE i \in FailedEntries : \A j \in FailedEntries : i <= j
FirstSink(e) ==
  SinkOrder[CHOOSE k \in 1..4 : /\ SinkOrder[k] \in e.failed
                                /\ \A j \in 1..(k - 1) : SinkOrder[j] \notin e.failed]
FirstError ==
  IF FailedEntries = {} THEN NoError
  ELSE ErrorAt(FirstFailed, FirstSink(cli.log[FirstFailed]))

Count(writes, sink) == Cardinality({ k \in 1..Len(writes) : writes[k] = sink })

\* C30: every result of the stream is written once to the JSONL writer,
\* matched or not; the pretty writer and the hit recorder get the matched
\* results, once each, and no other; the Burp export gets the matched results
\* without an error, once each, and no other.
C30_SinkRouting ==
  \A i \in 1..Len(cli.log) :
    LET e == cli.log[i]
    IN /\ Count(e.writes, "jsonl") = (IF cli.jsonl THEN 1 ELSE 0)
       /\ Count(e.writes, "pretty") = (IF e.matched THEN 1 ELSE 0)
       /\ Count(e.writes, "recorder") = (IF cli.recorder /\ e.matched THEN 1 ELSE 0)
       /\ Count(e.writes, "burp") = (IF cli.burp /\ e.matched /\ ~e.err THEN 1 ELSE 0)

\* with every sink configured: a matched result that carries an error, then
\* a result that does not match
C30_Witness ==
  /\ cli.jsonl /\ cli.burp /\ cli.recorder
  /\ Len(cli.log) = 2
  /\ cli.log[1].matched /\ cli.log[1].err
  /\ cli.log[1].writes = << "jsonl", "recorder", "pretty" >>
  /\ ~cli.log[2].matched
  /\ cli.log[2].writes = << "jsonl" >>

\* ================================================== hydroapi: API
\* api.running, api.cancel and api.done are the fields of the API (cancel and
\* done name the scan they belong to, 0 is nil); api.scans has one record per
\* scan StartScan has launched: its context, its done channel, the caller's
\* results channel, the goroutine that forwards the stream (pc) and the results
\* the engine has still to produce; api.stop has the callers of StopScan with
\* the copies they took under the mutex; api.in and api.err are the arguments
\* and the answer of the last StartScan, api.tick changes with every call.
MaxScans == 2
MaxStream == 1
MaxStoppers == 1
Stoppers == 1..MaxStoppers
Scans == 1..MaxScans
ErrNilResults == "results channel cannot be nil"
ErrRunning == "a scan is already running"
ErrRun == "engine.Run"
IdleStopper == [pc |-> "idle", cancel |-> 0, done |-> 0, running |-> FALSE]
NewScan(left) ==
  [ctxDone |-> FALSE, doneClosed |-> FALSE, resultsClosed |-> FALSE, pc |-> "recv",
   left |-> left, engine |-> "running"]

\* StartScan without the test of a.running
StartScanNoCheck(a, results, runFails, left) ==
  LET called == [a EXCEPT !.tick = ~@, !.in = [results |-> results, runFails |-> runFails]]
  IN IF results = "nil" THEN [called EXCEPT !.err = ErrNilResults]
     ELSE IF runFails THEN [called EXCEPT !.err = ErrRun]
     ELSE [called EXCEPT !.err = "",
                         !.scans = Append(@, NewScan(left)),
                         !.cancel = Len(a.scans) + 1,
                         !.done = Len(a.scans) + 1,
                         !.running = TRUE]

\* StartScan, from a.mu.Lock() to the go statement
StartScanCall(a, results, runFails, left) ==
  LET called == [a EXCEPT !.tick = ~@, !.in = [results |-> results, runFails |-> runFails]]
  IN IF results = "nil" THEN [called EXCEPT !.err = ErrNilResults]
     ELSE IF a.running THEN [called EXCEPT !.err = ErrRunning]
     ELSE IF runFails THEN [called EXCEPT !.err = ErrRun]
     ELSE [called EXCEPT !.err = "",
                         !.scans = Append(@, NewScan(left)),
                         !.cancel = Len(a.scans) + 1,
                         !.done = Len(a.scans) + 1,
                         !.running = TRUE]

StartScan ==
  /\ \E results \in {"nil", "chan"}, runFails \in BOOLEAN :
       \E left \in IF results = "chan" /\ ~runFails THEN 0..MaxStream ELSE {0} :
         /\ Len(StartScanCall(api, results, runFails, left).scans) <= MaxScans
         /\ api' = StartScanCall(api, results, runFails, left)
  /\ UNCHANGED << engineVars, store, cli, mt >>

\* the engine closes its stream when it has nothing left or its context is
\* cancelled
EngineClose(s) ==
  /\ s <= Len(api.scans)
  /\ api.scans[s].engine = "running"
  /\ api.scans[s].left = 0 \/ api.scans[s].ctxDone
  /\ api' = [api EXCEPT !.scans[s].engine = "closed", !.scans[s].left = 0]
  /\ UNCHANGED << engineVars, store, cli, mt >>

\* for res := range stream
PumpRecv(s) ==
  /\ s <= Len(api.scans)
  /\ api.scans[s].pc = "recv"
  /\ \/ /\ api.scans[s].engine = "running"
        /\ api.scans[s].left > 0
        /\ api' = [api EXCEPT !.scans[s].left = @ - 1, !.scans[s].pc = "select"]
     \/ /\ api.scans[s].engine = "closed"
        /\ api' = [api EXCEPT !.scans[s].pc = "finalize"]
  /\ UNCHANGED << engineVars, store, cli, mt >>

\* select { case <-scanCtx.Done(): return; case results <- Result(res): }
PumpSelect(s) ==
  /\ s <= Len(api.scans)
  /\ api.scans[s].pc = "select"
  /\ \/ /\ api.scans[s].ctxDone
        /\ api' = [api EXCEPT !.scans[s].pc = "finalize"]
     \/ api' = [api EXCEPT !.scans[s].pc = "recv"]
  /\ UNCHANGED << engineVars, store, cli, mt >>

\* finalize: the fields are cleared under the mutex
Finalize(s) ==
  /\ s <= Len(api.scans)
  /\ api.scans[s].pc = "finalize"
  /\ api' = [api EXCEPT !.running = FALSE, !.cancel = 0, !.done = 0,
                        !.scans[s].pc = "closeDone"]
  /\ UNCHANGED << engineVars, store, cli, mt >>

\* finalize: close(done)
CloseDone(s) ==
  /\ s <= Len(api.scans)
  /\ api.scans[s].pc = "closeDone"
  /\ api' = [api EXCEPT !.scans[s].doneClosed = TRUE, !.scans[s].pc = "closeResults"]
  /\ UNCHANGED << engineVars, store, cli, mt >>

\* the deferred close(results), which runs after the deferred finalize
CloseResults(s) ==
  /\ s <= Len(api.scans)
  /\ api.scans[s].pc = "closeResults"
  /\ api' = [api EXCEPT !.scans[s].resultsClosed = TRUE, !.scans[s].pc = "exited"]
  /\ UNCHANGED << engineVars, store, cli, mt >>

\* StopScan: the copies taken under the mutex; if !running { return }
StopCopy(t) ==
  /\ api.stop[t].pc = "idle"
  /\ api' = [api EXCEPT !.stop[t] =
               IF api.running
                 THEN [pc |-> "cancel", cancel |-> api.cancel, done |-> api.done,
                       running |-> TRUE]
                 ELSE [IdleStopper EXCEPT !.pc = "returned"]]
  /\ UNCHANGED << engineVars, store, cli, mt >>

\* StopScan: cancel()
StopCancel(t) ==
  /\ api.stop[t].pc = "cancel"
  /\ api' = [api EXCEPT !.stop[t].pc = "wait",
                        !.scans = IF api.stop[t].cancel # 0
                                    THEN [@ EXCEPT ![api.stop[t].cancel].ctxDone = TRUE]
                                    ELSE @]
  /\ UNCHANGED << engineVars, store, cli, mt >>

\* StopScan: <-done, and the return
StopWait(t) ==
  /\ api.stop[t].pc = "wait"
  /\ api.stop[t].done # 0 => api.scans[api.stop[t].done].doneClosed
  /\ api' = [api EXCEPT !.stop[t] = [IdleStopper EXCEPT !.pc = "returned"]]
  /\ UNCHANGED << engineVars, store, cli, mt >>

\* the caller calls StopScan again
StopAgain(t) ==
  /\ api.stop[t].pc = "returned"
  /\ api' = [api EXCEPT !.stop[t] = IdleStopper]
  /\ UNCHANGED << engineVars, store, cli, mt >>

InitApi ==
  /\ cfg = NoRun
  /\ FreshEngine
  /\ store = NoStore
  /\ cli = NoCli
  /\ mt = NoMatcher
  /\ api = [running |-> FALSE, cancel |-> 0, done |-> 0, scans |-> << >>,
            stop |-> [t \in Stoppers |-> IdleStopper],
            tick |-> FALSE, in |-> [results |-> "nil", runFails |-> FALSE], err |-> ""]

NextApi ==
  \/ StartScan
  \/ \E s \in Scans :
       \/ EngineClose(s)
       \/ PumpRecv(s)
       \/ PumpSelect(s)
       \/ Finalize(s)
       \/ CloseDone(s)
       \/ CloseResults(s)
  \/ \E t \in Stoppers :
       \/ StopCopy(t)
       \/ StopCancel(t)
       \/ StopWait(t)
       \/ StopAgain(t)

SpecApi == InitApi /\ [][NextApi]_vars

\* the scans whose goroutine has not yet cleared the fields of the API
Unfinished == { s \in 1..Len(api.scans) : api.scans[s].pc \in {"recv", "select", "finalize"} }
StartScanStep == api'.tick # api.tick

\* C31: an API runs one scan at a time: a StartScan while a scan is running
\* returns an error, starts no engine run and leaves cancel, done and running
\* as they are; a StartScan after the scan has ended, by itself or by
\* StopScan, starts a scan.
C31_OneScanAtATime ==
  /\ [](/\ Cardinality(Unfinished) <= 1
        /\ api.running <=> Unfinished # {}
        /\ api.running => (Unfinished = { api.cancel } /\ api.done = api.cancel))
  /\ [][StartScanStep =>
          /\ api.running =>
               /\ api'.err \in { ErrRunning, ErrNilResults }
               /\ api'.in.results = "chan" => api'.err = ErrRunning
               /\ api'.scans = api.scans
               /\ api'.running = api.running
               /\ api'.cancel = api.cancel
               /\ api'.done = api.done
          /\ (~api.running /\ api'.in.results = "chan" /\ ~api'.in.runFails) =>
               /\ api'.err = ""
               /\ api'.running
               /\ Len(api'.scans) = Len(api.scans) + 1
               /\ api'.cancel = Len(api'.scans) /\ api'.done = Len(api'.scans)]_vars

\* a scan ended by StopScan, a second scan started after it and running, and
\* a third StartScan turned away
C31_Witness ==
  /\ Len(api.scans) = 2
  /\ api.scans[1].ctxDone /\ api.scans[1].pc = "exited"
  /\ \E t \in Stoppers : api.stop[t].pc = "returned"
  /\ api.running /\ api.cancel = 2
  /\ api.in.results = "chan" /\ ~api.in.runFails
  /\ api.err = ErrRunning

\* the step by which a Result is sent on the results channel of scan s
Sends(s) == api.scans[s].pc = "select" /\ api'.scans[s].pc = "recv"

\* the step by which StopScan returns to caller t after it waited for a scan
Returns(t) == api.stop[t].pc = "wait" /\ api'.stop[t].pc = "returned"

\* C32: when StopScan returns, the scan it cancelled has stopped: the API
\* does not report it running, its results channel is closed and nothing is
\* sent on it any more; with no scan running StopScan returns at once and
\* changes nothing.
C32_StopScanWaits ==
  [][/\ \A t \in Stoppers :
          Returns(t) =>
            /\ api'.cancel # api.stop[t].done
            /\ api'.scans[api.stop[t].done].pc \notin {"recv", "select", "finalize"}
            /\ api'.scans[api.stop[t].done].resultsClosed
     /\ \A s \in 1..Len(api.scans) : api.scans[s].doneClosed => ~Sends(s)
     /\ \A t \in Stoppers :
          (api.stop[t].pc = "idle" /\ api'.stop[t].pc # "idle" /\ ~api.running) =>
            /\ api'.stop[t].pc = "returned"
            /\ api'.running = api.running /\ api'.cancel = api.cancel
            /\ api'.done = api.done /\ api'.scans = api.scans]_vars

\* an invocation that resumes inside the stage the progress file names, and
\* the step by which its producer hands the pair (wordIndex, variantIndex) to
\* a worker
ResumedInStage == cfg.progress /\ obs.startFile.hasState /\ stage = obs.startFile.Stage
Schedules == ppc = "enqueue" /\ ppc' = "update"
ScheduledPair == << stageRank(stage), wordIndex, variantIndex >>

\* C33 as stated: on resume within a stage the pairs at or before the
\* persisted cursor are skipped, so every pair the resumed producer hands to
\* a worker, the first one included, is strictly after the persisted cursor.
C33_CursorPairSkipped ==
  [][ (ResumedInStage /\ Schedules)
        => Before(Cursor(obs.startFile), ScheduledPair) ]_vars

\* C33 as the tracker computes it: on resume within a stage the pairs
\* strictly before the persisted cursor are skipped and the pair at the
\* cursor is not: no pair handed to a worker precedes the cursor, and without
\* a recorder the first pair handed over is the pair at the cursor.
C33_PairsBeforeCursorSkipped ==
  /\ [][ (ResumedInStage /\ Schedules)
           => ~Before(ScheduledPair, Cursor(obs.startFile)) ]_vars
  /\ [][ (ResumedInStage /\ Schedules /\ obs.first = 0 /\ ~cfg.recorder)
           => ScheduledPair = Cursor(obs.startFile) ]_vars

\* a run resumed inside a stage, past its first pair, has handed the pair at
\* the persisted cursor to a worker, and nothing else yet
C33_Witness ==
  /\ ResumedInStage
  /\ Before(<< stageRank(stage), 0, 0 >>, Cursor(obs.startFile))
  /\ ppc = "update"
  /\ ScheduledPair = Cursor(obs.startFile)
  /\ obs.enqRun = { JobURL }

\* C34: the primary stage runs exactly when a response of the quick stage was
\* interesting, the responses received before an interruption of the quick
\* stage included: the run goes from the quick stage to the primary stage
\* only after such a response, and once there was one the progress does not
\* go from quick to complete.
C34_PositiveSurvivesResume ==
  /\ [][ (stage = progressStageQuick /\ stage' = progressStagePrimary)
           => obs.quickPositive ]_vars
  /\ [][ (cfg.progress /\ file.hasState /\ file.Stage = progressStageQuick
            /\ file'.Stage = progressStageComplete)
           => ~obs.quickPositive ]_vars

\* C35: a job a worker has received is carried out also after the
\* cancellation: when the invocation has returned, every URL that was handed
\* to a worker in it has been requested.
C35_DequeuedJobCarriedOut ==
  phase = "returned" => obs.enqRun \subseteq obs.reqRun

\* C36: whatever the step of a checkpoint write at which the process dies,
\* the progress file is absent (when none was ever written) or holds a whole
\* document, that of the state before the write or that of the state being
\* written; the next run never reads an empty or a truncated document.
C36_AtomicReplace ==
  mt.op = "write"
    => /\ mt.target = Absent \/ \E c \in Checkpoints : mt.target = Doc(c)
       /\ mt.target \in { mt.prev, Doc(mt.new) }
       /\ mt.target = Absent => mt.prev = Absent
       /\ mt.read \in { "absent", "state" }
       /\ (mt.pc = "idle" /\ mt.read = "state" /\ mt.mem # mt.new)
            => Doc(mt.mem) = mt.prev

\* the process died with the temporary file partly written and the next run
\* has read the previous checkpoint
C36_Witness ==
  /\ mt.op = "write"
  /\ mt.pc = "idle"
  /\ mt.tmp # NoTemp /\ Len(mt.tmp) \in 1..4
  /\ mt.read = "state"
  /\ mt.mem = State(progressStagePrimary, 0, 0)
  /\ mt.new = State(progressStagePrimary, 1, 0)
  /\ mt.target = Doc(mt.mem)

\* how often url is among the errored Results of the producer
ErrCount(url) == Cardinality({ k \in 1..Len(obs.errs) : obs.errs[k] = url })
PrimaryURLs == { PairURL(t) : t \in { p \in Pairs : p[1] = progressStagePrimary } }

\* C37: when MarkAttempt fails for a URL the producer emits one errored
\* Result with that URL, requests nothing for it, leaves the cursor where it
\* is and goes on with the next pair; only a cancelled context ends the stage
\* there.
C37_MarkAttemptFailure ==
  /\ [][ (ppc = "emitErr" /\ ppc' # "emitErr")
           => \/ /\ ppc' = "variant"
                 /\ variantIndex' = variantIndex + 1 /\ wordIndex' = wordIndex
                 /\ ~stop'
                 /\ obs'.errs = Append(obs.errs, JobURL)
                 /\ delivered' = delivered + 1
                 /\ file' = file /\ tracker' = tracker
                 /\ requests' = requests /\ pool' = pool
              \/ /\ cancelled
                 /\ ppc' = "wait" /\ stop'
                 /\ obs'.errs = obs.errs
                 /\ file' = file /\ tracker' = tracker
                 /\ requests' = requests /\ pool' = pool ]_vars
  /\ [](cfg.recorder =>
          /\ \A u \in cfg.markFails : requests[u] = 0 /\ ErrCount(u) <= 1
          /\ (phase = "returned" /\ ~cancelled /\ obs.ranPrimary /\ cfg.setFails = {})
               => /\ \A u \in cfg.markFails : ErrCount(u) = 1
                  /\ PrimaryURLs \ cfg.markFails \subseteq obs.reqRun \cup obs.startAttempted
                  /\ cfg.progress => file = State(progressStageComplete, 0, 0))

\* MarkAttempt failed for the first URL of the stage: one errored Result for
\* it, no request for it, the other URLs requested and the stage completed
C37_Witness ==
  /\ cfg.recorder /\ cfg.progress /\ ~cfg.quick
  /\ cfg.markFails = { Expand(Target, 1) }
  /\ phase = "returned" /\ ~cancelled
  /\ obs.errs = << Expand(Target, 1) >>
  /\ requests[Expand(Target, 1)] = 0
  /\ obs.reqRun = { Expand(Target, 2), Expand(Target, 3) }
  /\ file = State(progressStageComplete, 0, 0)

\* the URLs handed to a worker in this invocation whose Result the consumer
\* has not received, and the pairs the persisted cursor has moved past since
\* the invocation started
WorkerResults == delivered - Len(obs.errs)
Outstanding == Cardinality(obs.enqRun) - WorkerResults
CursorAdvance ==
  file.WordIndex - (IF obs.startFile.hasState THEN obs.startFile.WordIndex ELSE 0)
WorkerCount == IF cfg.workers <= 0 THEN 1 ELSE cfg.workers

\* C38: at every moment the URLs handed to the workers whose Result has not
\* been delivered number at most the worker count, so the persisted cursor is
\* never more than that many pairs ahead of the Results delivered, and after
\* a cancellation at most that many URLs handed over have no Result.
C38_CursorLeadBound ==
  phase # "idle"
    => /\ Outstanding \in 0..WorkerCount
       /\ (~cfg.recorder /\ file.hasState /\ file.Stage = progressStagePrimary)
            => CursorAdvance - WorkerResults <= WorkerCount

\* two workers, the context cancelled, the invocation returned: two URLs
\* were handed over and had no Result
C38_Witness ==
  /\ cfg.workers = 2
  /\ phase = "returned" /\ cancelled
  /\ Outstanding = 2
  /\ ~cfg.recorder
  /\ CursorAdvance - WorkerResults = 2

\* the URLs marked attempted none of whose pairs the persisted cursor has
\* moved past
PassedURLs == { PairURL(t) : t \in { p \in Pairs :
                  Before(<< stageRank(p[1]), p[2], p[3] >>, Cursor(file)) } }
Unpassed == path_attempted \ PassedURLs

\* C39: with a recorder that started empty and a progress file, at most one
\* URL is marked attempted while the persisted cursor has not moved past its
\* pair, and while the producer is scheduling that URL is the one of the pair
\* being scheduled; every other attempted URL has a pair strictly before the
\* persisted cursor.
C39_AtMostOneUnpassed ==
  (cfg.recorder /\ cfg.progress)
    => /\ Cardinality(Unpassed) <= 1
       /\ ppc \in {"enqueue", "update"} => Unpassed \subseteq {JobURL}

\* the second URL of the stage is marked and not yet passed, the first is
\* marked and passed
C39_Witness ==
  /\ cfg.recorder /\ cfg.progress
  /\ ppc = "update"
  /\ Cardinality(path_attempted) = 2
  /\ Unpassed = {JobURL}

\* Set assigned the tracker's state and writeLocked failed: the tracker holds
\* a cursor the progress file does not
WriteFailed == cfg.progress /\ tracker # file
LeavesEmit == ppc = "emitSetErr" /\ ppc' # "emitSetErr"
StageReturns == ppc = "wait" /\ ppc' # "wait"
StopsAfterWriteFailure ==
  /\ [][ LeavesEmit => (stop' /\ jobsClosed' /\ ppc' = "wait" /\ file' = file) ]_vars
  /\ [][ WriteFailed => ~Schedules ]_vars
  /\ [][ (WriteFailed /\ StageReturns)
           => /\ stop
              /\ \A w \in BagToSet(pool) : w.pc = "exit"
              /\ ~cancelled => obs.enqRun \subseteq obs.reqRun
              /\ file' = file /\ file.Stage = stage ]_vars

\* C40 as stated: when the write of the progress cursor fails, an errored
\* Result for the URL is delivered, the producer hands over no further URL,
\* the URLs already handed over are carried out, and the stage returns with
\* the progress file as it was, not set to the successor.
C40_WriteFailureAlwaysReported ==
  /\ [][ LeavesEmit => obs'.errs = Append(obs.errs, JobURL) ]_vars
  /\ StopsAfterWriteFailure

\* C40 as the producer does it: the same, except that the errored Result is
\* given up when the context is cancelled while the emit waits.
C40_WriteFailureStopsStage ==
  /\ [][ LeavesEmit => \/ obs'.errs = Append(obs.errs, JobURL)
                       \/ cancelled /\ obs' = obs ]_vars
  /\ [][ (LeavesEmit /\ ~cancelled) => obs'.errs = Append(obs.errs, JobURL) ]_vars
  /\ StopsAfterWriteFailure

\* the write failed for a URL of the primary stage, its errored Result was
\* delivered, and the invocation returned with the cursor inside the stage
C40_Witness ==
  /\ phase = "returned" /\ ~cancelled
  /\ cfg.markFails = {}
  /\ WriteFailed
  /\ Len(obs.errs) = 1 /\ obs.errs[1] \in cfg.setFails
  /\ file.hasState /\ file.Stage = progressStagePrimary

====
